---- MODULE Spec2Model ----
(***************************************************************************)
(* The AI-response normalization and repair pipeline of the business       *)
(* analysis controller: parseAIResponse, validateAndRepairAnalysis and     *)
(* createFallbackAnalysis.                                                 *)
(*                                                                         *)
(* A JavaScript string is a sequence of one-character strings.  A JSON     *)
(* value is a record [t, b, m, e, s, kids]: t is the JavaScript type tag,  *)
(* b a boolean, (m, e) the number m * 10^e, s the characters of a string   *)
(* and kids the members of an array or object as records [k, v].           *)
(***************************************************************************)
EXTENDS Integers, Sequences, FiniteSets, TLC

\* ------------------------------------------------------------ characters

Digits == {"0", "1", "2", "3", "4", "5", "6", "7", "8", "9"}

LowerLetters == {"a", "b", "c", "d", "e", "f", "g", "h", "i", "j", "k", "l", "m", "n", "o", "p", "q", "r", "s", "t", "u", "v", "w", "x", "y", "z"}

UpperLetters == {"A", "B", "C", "D", "E", "F", "G", "H", "I", "J", "K", "L", "M", "N", "O", "P", "Q", "R", "S", "T", "U", "V", "W", "X", "Y", "Z"}

\* \w of a JavaScript regular expression
WordChars == LowerLetters \cup UpperLetters \cup Digits \cup {"_"}

\* \s of a JavaScript regular expression (the ASCII part)
RegexSpace == {" ", "\t", "\n", "\r", "\f"}

\* the whitespace JSON.parse accepts between tokens
JsonWs == {" ", "\t", "\n", "\r"}

\* characters JSON.parse rejects inside a string literal
ControlChars == {"\t", "\n", "\r", "\f"}

HexDigits == Digits \cup {"a", "b", "c", "d", "e", "f", "A", "B", "C", "D", "E", "F"}

DigitVal(c) ==
  CASE c = "0" -> 0 [] c = "1" -> 1 [] c = "2" -> 2 [] c = "3" -> 3 [] c = "4" -> 4
    [] c = "5" -> 5 [] c = "6" -> 6 [] c = "7" -> 7 [] c = "8" -> 8 [] c = "9" -> 9
    [] c \in {"a", "A"} -> 10 [] c \in {"b", "B"} -> 11 [] c \in {"c", "C"} -> 12
    [] c \in {"d", "D"} -> 13 [] c \in {"e", "E"} -> 14 [] c \in {"f", "F"} -> 15
    [] OTHER -> 0

\* s[i], or "" past either end of s
At(s, i) == IF i >= 1 /\ i <= Len(s) THEN s[i] ELSE ""

\* the first index j >= i with s[j] outside the class C (Len(s) + 1 when none)
RECURSIVE RunEnd(_, _, _)
RunEnd(s, i, C) == IF At(s, i) \in C THEN RunEnd(s, i + 1, C) ELSE i

\* s.substring(a - 1, b): the characters a..b of s
Slice(s, a, b) == IF a > b THEN <<>> ELSE SubSeq(s, a, b)

\* whether pat occurs in s at index i
MatchesAt(s, pat, i) ==
  /\ i >= 1
  /\ i + Len(pat) - 1 <= Len(s)
  /\ \A k \in 1..Len(pat) : s[i + k - 1] = pat[k]

\* s.indexOf(pat, from): the first index >= from where pat occurs, 0 when none
Least(S) == CHOOSE x \in S : \A y \in S : x <= y

Greatest(S) == CHOOSE x \in S : \A y \in S : x >= y

IndexOfFrom(s, pat, from) ==
  LET hits == {i \in from..Len(s) : MatchesAt(s, pat, i)} IN
  IF hits = {} THEN 0 ELSE Least(hits)

\* s.lastIndexOf(c): the last index of the character c, 0 when none
LastIndexOf(s, c) ==
  LET hits == {i \in 1..Len(s) : s[i] = c} IN
  IF hits = {} THEN 0 ELSE Greatest(hits)

\* the number of occurrences of the character c in s
CountChar(s, c) == Cardinality({i \in 1..Len(s) : s[i] = c})

RECURSIVE Pow10(_)
Pow10(n) == IF n <= 0 THEN 1 ELSE 10 * Pow10(n - 1)

\* the value of the decimal digits s[a..b-1], continuing from acc
RECURSIVE DigitsValue(_, _, _, _)
DigitsValue(s, a, b, acc) ==
  IF a >= b THEN acc ELSE DigitsValue(s, a + 1, b, acc * 10 + DigitVal(s[a]))

\* ------------------------------------------------------------ JSON values

JSVal(t, b, m, e, s, kids) == [t |-> t, b |-> b, m |-> m, e |-> e, s |-> s, kids |-> kids]

\* JavaScript undefined: a property that is absent
Undef == JSVal("undef", FALSE, 0, 0, <<>>, <<>>)

Null == JSVal("null", FALSE, 0, 0, <<>>, <<>>)

Bool(b) == JSVal("bool", b, 0, 0, <<>>, <<>>)

Str(s) == JSVal("str", FALSE, 0, 0, s, <<>>)

Arr(elems) == JSVal("arr", FALSE, 0, 0, <<>>, [i \in 1..Len(elems) |-> [k |-> <<>>, v |-> elems[i]]])

Obj(members) == JSVal("obj", FALSE, 0, 0, <<>>, members)

\* the number m * 10^e in canonical form: an integer has e = 0, a fraction has
\* e < 0 and a last mantissa digit other than 0
RECURSIVE Canon(_, _)
Canon(m, e) ==
  IF m = 0 THEN JSVal("num", FALSE, 0, 0, <<>>, <<>>)
  ELSE IF e > 0 THEN JSVal("num", FALSE, m * Pow10(e), 0, <<>>, <<>>)
  ELSE IF e < 0 /\ m % 10 = 0 THEN Canon(m \div 10, e + 1)
  ELSE JSVal("num", FALSE, m, e, <<>>, <<>>)

Num(n) == Canon(n, 0)

\* x >= n and x <= n for a number value x and an integer n
NumGeq(x, n) == IF x.e = 0 THEN x.m >= n ELSE x.m >= n * Pow10(0 - x.e)

NumLeq(x, n) == IF x.e = 0 THEN x.m <= n ELSE x.m <= n * Pow10(0 - x.e)

\* obj.key of JavaScript: the last member named key of an object, undefined for
\* a missing key and for every other kind of value (no string, array, number or
\* boolean has a property named by one of the schema's keys)
RECURSIVE LookupFrom(_, _, _)
LookupFrom(kids, key, i) ==
  IF i < 1 THEN Undef
  ELSE IF kids[i].k = key THEN kids[i].v
  ELSE LookupFrom(kids, key, i - 1)

Get(x, key) == IF x.t = "obj" THEN LookupFrom(x.kids, key, Len(x.kids)) ELSE Undef

\* ToBoolean of JavaScript
Truthy(x) ==
  CASE x.t \in {"undef", "null"} -> FALSE
    [] x.t = "bool" -> x.b
    [] x.t = "num" -> x.m # 0
    [] x.t = "str" -> Len(x.s) > 0
    [] OTHER -> TRUE

\* a || b of JavaScript
OrElse(a, b) == IF Truthy(a) THEN a ELSE b

\* ------------------------------------------------------------ JSON.parse

ParseFail == [ok |-> FALSE, v |-> Undef, i |-> 0]

ParseOk(v, i) == [ok |-> TRUE, v |-> v, i |-> i]

SkipWs(s, i) == RunEnd(s, i, JsonWs)

\* the decoded character of a simple escape \c
Unescape(c) ==
  CASE c = "n" -> "\n" [] c = "t" -> "\t" [] c = "r" -> "\r" [] c = "f" -> "\f"
    [] c = "b" -> "\\b" [] OTHER -> c

\* the rest of a string literal from index j, acc the characters decoded so far
RECURSIVE StringBody(_, _, _)
StringBody(s, j, acc) ==
  LET c == At(s, j) IN
  IF c = "" \/ c \in ControlChars THEN ParseFail
  ELSE IF c = "\"" THEN ParseOk(Str(acc), j + 1)
  ELSE IF c = "\\" THEN
    LET d == At(s, j + 1) IN
    IF d \in {"\"", "\\", "/", "b", "f", "n", "r", "t"}
      THEN StringBody(s, j + 2, Append(acc, Unescape(d)))
    ELSE IF d = "u" /\ \A k \in 2..5 : At(s, j + k) \in HexDigits
      THEN StringBody(s, j + 6, acc \o <<"\\u">> \o Slice(s, j + 2, j + 5))
    ELSE ParseFail
  ELSE StringBody(s, j + 1, Append(acc, c))

\* a string literal whose opening quote is s[i]
ParseString(s, i) == StringBody(s, i + 1, <<>>)

\* a number literal starting at s[i]: -? (0 | [1-9][0-9]*) (. [0-9]+)? ([eE] [+-]? [0-9]+)?
ParseNumber(s, i) ==
  LET neg == At(s, i) = "-"
      a == IF neg THEN i + 1 ELSE i
      intEnd == IF At(s, a) = "0" THEN a + 1 ELSE RunEnd(s, a, Digits)
      hasFrac == At(s, intEnd) = "."
      fracEnd == IF hasFrac THEN RunEnd(s, intEnd + 1, Digits) ELSE intEnd
      hasExp == At(s, fracEnd) \in {"e", "E"}
      expNeg == At(s, fracEnd + 1) = "-"
      expStart == IF At(s, fracEnd + 1) \in {"+", "-"} THEN fracEnd + 2 ELSE fracEnd + 1
      expEnd == IF hasExp THEN RunEnd(s, expStart, Digits) ELSE fracEnd
      intVal == DigitsValue(s, a, intEnd, 0)
      mant == IF hasFrac THEN DigitsValue(s, intEnd + 1, fracEnd, intVal) ELSE intVal
      fracLen == IF hasFrac THEN fracEnd - (intEnd + 1) ELSE 0
      expAbs == IF hasExp THEN DigitsValue(s, expStart, expEnd, 0) ELSE 0
      expVal == IF expNeg THEN 0 - expAbs ELSE expAbs
  IN
  IF intEnd = a \/ (hasFrac /\ fracEnd = intEnd + 1) \/ (hasExp /\ expEnd = expStart)
    THEN ParseFail
  ELSE ParseOk(Canon(IF neg THEN 0 - mant ELSE mant, expVal - fracLen), expEnd)

RECURSIVE ParseValue(_, _)
RECURSIVE ParseElements(_, _, _)
RECURSIVE ParseMembers(_, _, _)

\* the elements of an array from index j, acc the elements parsed so far
ParseElements(s, j, acc) ==
  LET r == ParseValue(s, j)
      k == SkipWs(s, r.i)
  IN
  IF ~r.ok THEN ParseFail
  ELSE IF At(s, k) = "," THEN ParseElements(s, k + 1, Append(acc, r.v))
  ELSE IF At(s, k) = "]" THEN ParseOk(Arr(Append(acc, r.v)), k + 1)
  ELSE ParseFail

\* the members of an object from index j, acc the members parsed so far
ParseMembers(s, j, acc) ==
  LET a == SkipWs(s, j)
      key == IF At(s, a) = "\"" THEN ParseString(s, a) ELSE ParseFail
      c == SkipWs(s, key.i)
      r == IF key.ok /\ At(s, c) = ":" THEN ParseValue(s, c + 1) ELSE ParseFail
      k == SkipWs(s, r.i)
  IN
  IF ~r.ok THEN ParseFail
  ELSE IF At(s, k) = "," THEN ParseMembers(s, k + 1, Append(acc, [k |-> key.v.s, v |-> r.v]))
  ELSE IF At(s, k) = "}" THEN ParseOk(Obj(Append(acc, [k |-> key.v.s, v |-> r.v])), k + 1)
  ELSE ParseFail

\* one JSON value starting at or after index i
ParseValue(s, i) ==
  LET j == SkipWs(s, i)
      c == At(s, j)
  IN
  CASE c = "{" ->
         (LET a == SkipWs(s, j + 1) IN
          IF At(s, a) = "}" THEN ParseOk(Obj(<<>>), a + 1) ELSE ParseMembers(s, j + 1, <<>>))
    [] c = "[" ->
         (LET a == SkipWs(s, j + 1) IN
          IF At(s, a) = "]" THEN ParseOk(Arr(<<>>), a + 1) ELSE ParseElements(s, j + 1, <<>>))
    [] c = "\"" -> ParseString(s, j)
    [] c = "-" \/ c \in Digits -> ParseNumber(s, j)
    [] c = "t" -> IF MatchesAt(s, <<"t", "r", "u", "e">>, j) THEN ParseOk(Bool(TRUE), j + 4) ELSE ParseFail
    [] c = "f" -> IF MatchesAt(s, <<"f", "a", "l", "s", "e">>, j) THEN ParseOk(Bool(FALSE), j + 5) ELSE ParseFail
    [] c = "n" -> IF MatchesAt(s, <<"n", "u", "l", "l">>, j) THEN ParseOk(Null, j + 4) ELSE ParseFail
    [] OTHER -> ParseFail

\* JSON.parse(text): ok with the value, or not ok where JSON.parse throws
JSONParse(s) ==
  LET r == ParseValue(s, 1) IN
  IF r.ok /\ SkipWs(s, r.i) = Len(s) + 1 THEN [ok |-> TRUE, v |-> r.v] ELSE [ok |-> FALSE, v |-> Undef]

\* ------------------------------------------------------------ string literals of the source

K_businessType == <<"b", "u", "s", "i", "n", "e", "s", "s", "T", "y", "p", "e">>

K_detectedFocus == <<"d", "e", "t", "e", "c", "t", "e", "d", "F", "o", "c", "u", "s">>

K_topProblems == <<"t", "o", "p", "P", "r", "o", "b", "l", "e", "m", "s">>

K_recommendedSolutions == <<"r", "e", "c", "o", "m", "m", "e", "n", "d", "e", "d", "S", "o", "l", "u", "t", "i", "o", "n", "s">>

K_primary == <<"p", "r", "i", "m", "a", "r", "y">>

K_secondary == <<"s", "e", "c", "o", "n", "d", "a", "r", "y">>

K_id == <<"i", "d">>

K_reason == <<"r", "e", "a", "s", "o", "n">>

K_confidence == <<"c", "o", "n", "f", "i", "d", "e", "n", "c", "e">>

S_website == <<"w", "e", "b", "s", "i", "t", "e">>

S_whatsapp == <<"w", "h", "a", "t", "s", "a", "p", "p">>

S_instagram == <<"i", "n", "s", "t", "a", "g", "r", "a", "m">>

S_CraftBusiness == <<"C", "r", "a", "f", "t", " ", "B", "u", "s", "i", "n", "e", "s", "s">>

S_HandmadeProducts == <<"H", "a", "n", "d", "m", "a", "d", "e", " ", "P", "r", "o", "d", "u", "c", "t", "s">>

S_UnableToDetermine == <<"U", "n", "a", "b", "l", "e", " ", "t", "o", " ", "d", "e", "t", "e", "r", "m", "i", "n", "e", " ", "s", "p", "e", "c", "i", "f", "i", "c", " ", "c", "h", "a", "l", "l", "e", "n", "g", "e", "s">>

S_NoSpecificChallenges == <<"N", "o", " ", "s", "p", "e", "c", "i", "f", "i", "c", " ", "c", "h", "a", "l", "l", "e", "n", "g", "e", "s", " ", "i", "d", "e", "n", "t", "i", "f", "i", "e", "d">>

S_BasicOnlinePresence == <<"A", " ", "b", "a", "s", "i", "c", " ", "o", "n", "l", "i", "n", "e", " ", "p", "r", "e", "s", "e", "n", "c", "e", " ", "i", "s", " ", "e", "s", "s", "e", "n", "t", "i", "a", "l">>

S_DirectCommunication == <<"D", "i", "r", "e", "c", "t", " ", "c", "u", "s", "t", "o", "m", "e", "r", " ", "c", "o", "m", "m", "u", "n", "i", "c", "a", "t", "i", "o", "n">>

S_LimitedOnlinePresence == <<"L", "i", "m", "i", "t", "e", "d", " ", "o", "n", "l", "i", "n", "e", " ", "p", "r", "e", "s", "e", "n", "c", "e">>

S_NeedBetterReach == <<"N", "e", "e", "d", " ", "b", "e", "t", "t", "e", "r", " ", "c", "u", "s", "t", "o", "m", "e", "r", " ", "r", "e", "a", "c", "h">>

S_ProfessionalWebsite == <<"A", " ", "p", "r", "o", "f", "e", "s", "s", "i", "o", "n", "a", "l", " ", "w", "e", "b", "s", "i", "t", "e", " ", "b", "u", "i", "l", "d", "s", " ", "c", "r", "e", "d", "i", "b", "i", "l", "i", "t", "y", " ", "a", "n", "d", " ", "s", "h", "o", "w", "c", "a", "s", "e", "s", " ", "y", "o", "u", "r", " ", "p", "r", "o", "d", "u", "c", "t", "s">>

S_WhatsAppBusiness == <<"W", "h", "a", "t", "s", "A", "p", "p", " ", "B", "u", "s", "i", "n", "e", "s", "s", " ", "e", "n", "a", "b", "l", "e", "s", " ", "d", "i", "r", "e", "c", "t", " ", "c", "u", "s", "t", "o", "m", "e", "r", " ", "c", "o", "m", "m", "u", "n", "i", "c", "a", "t", "i", "o", "n", " ", "a", "n", "d", " ", "o", "r", "d", "e", "r", "s">>

S_JSONParsingFailed == <<"J", "S", "O", "N", " ", "p", "a", "r", "s", "i", "n", "g", " ", "f", "a", "i", "l", "e", "d">>

\* ------------------------------------------------------------ extraction

\* the backtick character (a backtick cannot be written in a string literal here)
Backtick == "BACKTICK"

Fence == <<Backtick, Backtick, Backtick>>

NoMatch == [matched |-> FALSE, group1 |-> <<>>]

\* the lazy ([\s\S]*?) followed by \s*```: the least end c >= from of the
\* capture such that whitespace and then a fence follow, 0 when none
FenceContentEnd(s, from) ==
  LET ends == {c \in from..(Len(s) + 1) : MatchesAt(s, Fence, RunEnd(s, c, RegexSpace))} IN
  IF ends = {} THEN 0 ELSE Least(ends)

\* /```(?:json)?\s*([\s\S]*?)\s*```/ tried at index i (a fence): the optional
\* tag and the whitespace after it are greedy; giving either back never makes a
\* match, for the capture accepts every character
FenceMatchAt(s, i) ==
  LET afterTag == IF MatchesAt(s, <<"j", "s", "o", "n">>, i + 3) THEN i + 7 ELSE i + 3
      q == RunEnd(s, afterTag, RegexSpace)
      c == FenceContentEnd(s, q)
  IN IF c = 0 THEN NoMatch ELSE [matched |-> TRUE, group1 |-> Slice(s, q, c - 1)]

\* jsonStr.match(/```(?:json)?\s*([\s\S]*?)\s*```/): the leftmost match
RECURSIVE CodeBlockMatchFrom(_, _)
CodeBlockMatchFrom(s, from) ==
  LET i == IndexOfFrom(s, Fence, from) IN
  IF i = 0 THEN NoMatch
  ELSE IF FenceMatchAt(s, i).matched THEN FenceMatchAt(s, i)
  ELSE CodeBlockMatchFrom(s, i + 1)

CodeBlockMatch(s) == CodeBlockMatchFrom(s, 1)

\* faulty variant: the code block is never stripped
KeepRawText(rawText) == rawText

\* the text the brace search runs on: the first code block's content, else the raw text
StripCodeBlock(rawText) ==
  IF CodeBlockMatch(rawText).matched THEN CodeBlockMatch(rawText).group1 ELSE rawText

\* jsonStr.indexOf('{')
FirstBrace(s) == IndexOfFrom(s, <<"{">>, 1)

\* jsonStr.lastIndexOf('}')
LastBrace(s) == LastIndexOf(s, "}")

\* faulty variant: the order of the two braces is not checked
NoJsonObjectUnordered(firstBrace, lastBrace) == firstBrace = 0 \/ lastBrace = 0

\* firstBrace === -1 || lastBrace === -1 || firstBrace >= lastBrace (index 0 is "none" here)
NoJsonObject(firstBrace, lastBrace) == firstBrace = 0 \/ lastBrace = 0 \/ firstBrace >= lastBrace

\* jsonStr.substring(firstBrace, lastBrace + 1)
BraceSpan(s) == Slice(s, FirstBrace(s), LastBrace(s))

\* ------------------------------------------------------------ repair transforms

\* A global replace scans from the end of the previous match for the leftmost
\* index where the pattern matches, copies the text before it, writes the
\* replacement and goes on after the match.  Each pattern below has one way to
\* match at a given index: its greedy parts are runs of one character class
\* followed by a character outside that class.

\* /(\s*)(\w+)(\s*):/ at index i: the index of the ':' that ends the match, 0 when none
KeyMatchEnd(s, i) ==
  LET a == RunEnd(s, i, RegexSpace)
      b == RunEnd(s, a, WordChars)
      c == RunEnd(s, b, RegexSpace)
  IN IF b > a /\ At(s, c) = ":" THEN c ELSE 0

\* .replace(/(\s*)(\w+)(\s*):/g, '$1"$2"$3:')
RECURSIVE QuoteKeysFrom(_, _)
QuoteKeysFrom(s, from) ==
  LET starts == {i \in from..Len(s) : KeyMatchEnd(s, i) > 0} IN
  IF starts = {} THEN Slice(s, from, Len(s))
  ELSE
    LET i == Least(starts)
        a == RunEnd(s, i, RegexSpace)
        b == RunEnd(s, a, WordChars)
        c == KeyMatchEnd(s, i)
    IN Slice(s, from, a - 1) \o <<"\"">> \o Slice(s, a, b - 1) \o <<"\"">> \o Slice(s, b, c - 1)
         \o <<":">> \o QuoteKeysFrom(s, c + 1)

QuoteKeys(s) == QuoteKeysFrom(s, 1)

\* .replace(/:\s*'([^']*)'/g, ': "$1"')
\* /:\s*'([^']*)'/ at index i: the index of the closing quote, 0 when none
QuotedMatchEnd(s, i) ==
  LET a == RunEnd(s, i + 1, RegexSpace) IN
  IF At(s, i) = ":" /\ At(s, a) = "'" THEN IndexOfFrom(s, <<"'">>, a + 1) ELSE 0

RECURSIVE SingleToDoubleFrom(_, _)
SingleToDoubleFrom(s, from) ==
  LET starts == {i \in from..Len(s) : QuotedMatchEnd(s, i) > 0} IN
  IF starts = {} THEN Slice(s, from, Len(s))
  ELSE
    LET i == Least(starts)
        a == RunEnd(s, i + 1, RegexSpace)
        b == QuotedMatchEnd(s, i)
    IN Slice(s, from, i - 1) \o <<":", " ", "\"">> \o Slice(s, a + 1, b - 1) \o <<"\"">>
         \o SingleToDoubleFrom(s, b + 1)

SingleToDouble(s) == SingleToDoubleFrom(s, 1)

\* .replace(/,(\s*[}\]])/g, '$1')
\* /,(\s*[}\]])/ at index i: the index of the bracket that ends the match, 0 when none
CommaMatchEnd(s, i) ==
  LET a == RunEnd(s, i + 1, RegexSpace) IN
  IF At(s, i) = "," /\ At(s, a) \in {"}", "]"} THEN a ELSE 0

RECURSIVE RemoveTrailingCommasFrom(_, _)
RemoveTrailingCommasFrom(s, from) ==
  LET starts == {i \in from..Len(s) : CommaMatchEnd(s, i) > 0} IN
  IF starts = {} THEN Slice(s, from, Len(s))
  ELSE
    LET i == Least(starts)
        a == CommaMatchEnd(s, i)
    IN Slice(s, from, i - 1) \o Slice(s, i + 1, a) \o RemoveTrailingCommasFrom(s, a + 1)

RemoveTrailingCommas(s) == RemoveTrailingCommasFrom(s, 1)

\* '}'.repeat(n)
RepeatBrace(n) == [k \in 1..n |-> "}"]

\* how many '}' are appended: openBraces - closeBraces when openBraces > closeBraces
MissingBraces(openBraces, closeBraces) ==
  IF openBraces > closeBraces THEN openBraces - closeBraces ELSE 0

BalanceBraces(s) == s \o RepeatBrace(MissingBraces(CountChar(s, "{"), CountChar(s, "}")))

\* the whole repair of lines 199-214
Repair(jsonStr) == BalanceBraces(RemoveTrailingCommas(SingleToDouble(QuoteKeys(jsonStr))))

\* ------------------------------------------------------------ normalizer

\* the value of the digits s[a..b-1] in the given radix, continuing from acc
RECURSIVE RadixValue(_, _, _, _, _)
RadixValue(s, a, b, radix, acc) ==
  IF a >= b THEN acc ELSE RadixValue(s, a + 1, b, radix, acc * radix + DigitVal(s[a]))

NaN == [nan |-> TRUE, n |-> 0]

\* parseInt(string): leading whitespace is skipped, then an optional sign, an
\* optional 0x or 0X prefix that selects radix 16, and the longest run of
\* digits; NaN when that run is empty
ParseInt(s) ==
  LET a == RunEnd(s, 1, RegexSpace)
      neg == At(s, a) = "-"
      b == IF At(s, a) \in {"+", "-"} THEN a + 1 ELSE a
      hex == At(s, b) = "0" /\ At(s, b + 1) \in {"x", "X"}
      start == IF hex THEN b + 2 ELSE b
      end == RunEnd(s, start, IF hex THEN HexDigits ELSE Digits)
      val == RadixValue(s, start, end, IF hex THEN 16 ELSE 10, 0)
  IN IF end = start THEN NaN ELSE [nan |-> FALSE, n |-> IF neg THEN 0 - val ELSE val]

ConfidenceMin == 0

ConfidenceMax == 100

DefaultConfidence == 85

FallbackConfidence == 75

Min(a, b) == IF a <= b THEN a ELSE b

Max(a, b) == IF a >= b THEN a ELSE b

\* Math.max(0, Math.min(100, n))
ClampConfidence(n) == Max(ConfidenceMin, Min(ConfidenceMax, n))

\* typeof x === 'string' && x.length > 0
IsNonEmptyString(x) == x.t = "str" /\ Len(x.s) > 0

\* the string field of lines 231-234: kept when a non-empty string, else the default
StringField(x, default) == IF IsNonEmptyString(x) THEN x ELSE Str(default)

\* the predicate of topProblems.filter
KeepProblem(p) == IsNonEmptyString(p)

KeepMember(member) == KeepProblem(member.v)

\* lines 235-237 and 256-258
TopProblems(x) ==
  LET first == IF x.t = "arr" /\ Len(x.kids) > 0
                 THEN JSVal("arr", FALSE, 0, 0, <<>>, SelectSeq(x.kids, KeepMember))
                 ELSE Arr(<<Str(S_UnableToDetermine)>>)
  IN IF Len(first.kids) = 0 THEN Arr(<<Str(S_NoSpecificChallenges)>>) ELSE first

\* faulty variant: the allow-list check accepts every string
AnyStringIsValidId(x) == x.t = "str"

\* validSolutionIds.includes(x)
IsValidSolutionId(x) == x.t = "str" /\ x.s \in {S_website, S_whatsapp, S_instagram}

\* data.recommendedSolutions?.[which]?.id || default, then lines 262-267
SolutionId(data, which, default) ==
  LET given == OrElse(Get(Get(Get(data, K_recommendedSolutions), which), K_id), Str(default))
  IN IF IsValidSolutionId(given) THEN given ELSE Str(default)

\* faulty variant: the reason given is dropped for the default
DefaultReason(data, which, default) == Str(default)

\* data.recommendedSolutions?.[which]?.reason || default
SolutionReason(data, which, default) ==
  OrElse(Get(Get(Get(data, K_recommendedSolutions), which), K_reason), Str(default))

\* lines 248-252
Confidence(c) ==
  IF c.t = "num" /\ NumGeq(c, ConfidenceMin) /\ NumLeq(c, ConfidenceMax) THEN c
  ELSE IF c.t = "str" /\ ~ParseInt(c.s).nan THEN Num(ClampConfidence(ParseInt(c.s).n))
  ELSE Num(DefaultConfidence)

validateAndRepairAnalysis(data) ==
  [businessType |-> StringField(Get(data, K_businessType), S_CraftBusiness),
   detectedFocus |-> StringField(Get(data, K_detectedFocus), S_HandmadeProducts),
   topProblems |-> TopProblems(Get(data, K_topProblems)),
   recommendedSolutions |->
     [primary |-> [id |-> SolutionId(data, K_primary, S_website),
                   reason |-> SolutionReason(data, K_primary, S_BasicOnlinePresence)],
      secondary |-> [id |-> SolutionId(data, K_secondary, S_whatsapp),
                     reason |-> SolutionReason(data, K_secondary, S_DirectCommunication)]],
   confidence |-> Confidence(Get(data, K_confidence)),
   fallback |-> Undef]

\* faulty variant: the fallback record carries no fallback mark
createUnmarkedFallback(reason) ==
  [businessType |-> Str(S_CraftBusiness),
   detectedFocus |-> Str(S_HandmadeProducts),
   topProblems |-> Arr(<<Str(reason), Str(S_LimitedOnlinePresence), Str(S_NeedBetterReach)>>),
   recommendedSolutions |->
     [primary |-> [id |-> Str(S_website), reason |-> Str(S_ProfessionalWebsite)],
      secondary |-> [id |-> Str(S_whatsapp), reason |-> Str(S_WhatsAppBusiness)]],
   confidence |-> Num(FallbackConfidence),
   fallback |-> Undef]

createFallbackAnalysis(reason) ==
  [businessType |-> Str(S_CraftBusiness),
   detectedFocus |-> Str(S_HandmadeProducts),
   topProblems |-> Arr(<<Str(reason), Str(S_LimitedOnlinePresence), Str(S_NeedBetterReach)>>),
   recommendedSolutions |->
     [primary |-> [id |-> Str(S_website), reason |-> Str(S_ProfessionalWebsite)],
      secondary |-> [id |-> Str(S_whatsapp), reason |-> Str(S_WhatsAppBusiness)]],
   confidence |-> Num(FallbackConfidence),
   fallback |-> Bool(TRUE)]

\* no analysis object: nothing has been returned
NoAnalysis ==
  [businessType |-> Undef, detectedFocus |-> Undef, topProblems |-> Undef,
   recommendedSolutions |-> [primary |-> [id |-> Undef, reason |-> Undef],
                             secondary |-> [id |-> Undef, reason |-> Undef]],
   confidence |-> Undef, fallback |-> Undef]

\* ------------------------------------------------------------ inputs

Text_NoBraces == <<"n", "o", " ", "b", "r", "a", "c", "e", "s", " ", "h", "e", "r", "e">>

Text_EndToEnd == <<"H", "e", "r", "e", " ", "i", "s", " ", "t", "h", "e", " ", "r", "e", "s", "u", "l", "t", ":", "\n", Backtick, Backtick, Backtick, "j", "s", "o", "n", "\n", "{", "b", "u", "s", "i", "n", "e", "s", "s", "T", "y", "p", "e", ":", " ", "'", "P", "o", "t", "t", "e", "r", "y", "'", ",", " ", "c", "o", "n", "f", "i", "d", "e", "n", "c", "e", ":", " ", "1", "2", "0", "}", "\n", Backtick, Backtick, Backtick, "\n", "H", "o", "p", "e", " ", "t", "h", "i", "s", " ", "h", "e", "l", "p", "s", "!">>

Text_FencedObject == <<Backtick, Backtick, Backtick, "j", "s", "o", "n", " ", "{", "\"", "a", "\"", ":", "1", "}", " ", Backtick, Backtick, Backtick>>

Text_FenceNoClose == <<Backtick, Backtick, Backtick, "j", "s", "o", "n", " ", "{", "\"", "a", "\"", ":", "1", "}">>

Text_BracesOutsideFence == <<"{", "\"", "x", "\"", ":", "1", "}", " ", Backtick, Backtick, Backtick, "\n", "{", "\"", "c", "o", "n", "f", "i", "d", "e", "n", "c", "e", "\"", ":", "\"", "8", "7", "\"", "}", "\n", Backtick, Backtick, Backtick, " ", "{", "\"", "y", "\"", ":", "2", "}">>

Text_EmptyFence == <<Backtick, Backtick, Backtick, Backtick, Backtick, Backtick, "{", "\"", "a", "\"", ":", "1", "}">>

Text_TruncatedNoClose == <<"{", "\"", "b", "u", "s", "i", "n", "e", "s", "s", "T", "y", "p", "e", "\"", ":", "\"", "P", "o", "t", "t", "e", "r", "y", "\"", ",", "\"", "t", "o", "p", "P", "r", "o", "b", "l", "e", "m", "s", "\"", ":", "[", "\"", "a", "\"">>

Text_Truncated == <<"{", "\"", "b", "u", "s", "i", "n", "e", "s", "s", "T", "y", "p", "e", "\"", ":", "\"", "P", "o", "t", "t", "e", "r", "y", "\"", ",", "\"", "r", "e", "c", "o", "m", "m", "e", "n", "d", "e", "d", "S", "o", "l", "u", "t", "i", "o", "n", "s", "\"", ":", "{", "\"", "p", "r", "i", "m", "a", "r", "y", "\"", ":", "{", "\"", "i", "d", "\"", ":", "\"", "i", "n", "s", "t", "a", "g", "r", "a", "m", "\"", "}", ",", "\"", "s", "e", "c", "o", "n", "d", "a", "r", "y", "\"", ":", "{", "\"", "i", "d", "\"", ":", "\"", "w", "e", "b">>

Text_FullAnalysis == <<"{", "\"", "b", "u", "s", "i", "n", "e", "s", "s", "T", "y", "p", "e", "\"", ":", "\"", "P", "o", "t", "t", "e", "r", "y", "\"", ",", "\"", "d", "e", "t", "e", "c", "t", "e", "d", "F", "o", "c", "u", "s", "\"", ":", "\"", "C", "l", "a", "y", " ", "p", "o", "t", "s", "\"", ",", "\"", "t", "o", "p", "P", "r", "o", "b", "l", "e", "m", "s", "\"", ":", "[", "\"", "N", "o", " ", "w", "e", "b", "s", "i", "t", "e", "\"", ",", "\"", "\"", "]", ",", "\"", "r", "e", "c", "o", "m", "m", "e", "n", "d", "e", "d", "S", "o", "l", "u", "t", "i", "o", "n", "s", "\"", ":", "{", "\"", "p", "r", "i", "m", "a", "r", "y", "\"", ":", "{", "\"", "i", "d", "\"", ":", "\"", "i", "n", "s", "t", "a", "g", "r", "a", "m", "\"", ",", "\"", "r", "e", "a", "s", "o", "n", "\"", ":", "\"", "V", "i", "s", "u", "a", "l", "\"", "}", ",", "\"", "s", "e", "c", "o", "n", "d", "a", "r", "y", "\"", ":", "{", "\"", "i", "d", "\"", ":", "\"", "t", "i", "k", "t", "o", "k", "\"", ",", "\"", "r", "e", "a", "s", "o", "n", "\"", ":", "5", "}", "}", ",", "\"", "c", "o", "n", "f", "i", "d", "e", "n", "c", "e", "\"", ":", "\"", "8", "7", "\"", "}">>

Text_ProseAround == <<"S", "u", "r", "e", ":", " ", "{", "\"", "c", "o", "n", "f", "i", "d", "e", "n", "c", "e", "\"", ":", "1", "5", "0", "}", " ", "d", "o", "n", "e", ".">>

Span_TrailingComma == <<"{", "\"", "a", "\"", ":", "1", ",", "}">>

Span_UnclosedBrace == <<"{", "\"", "a", "\"", ":", " ", "{", "\"", "b", "\"", ":", " ", "1", "}">>

Span_ColonInString == <<"{", "\"", "a", "\"", ":", "\"", "b", ":", "c", "\"", ",", "}">>

Span_BraceInString == <<"{", "\"", "a", "\"", ":", "{", "\"", "b", "\"", ":", "\"", "}", "\"", "}">>

Span_CommaBraceInString == <<"{", "\"", "a", "\"", ":", "\"", ",", "}", "\"", ",", "}">>

Span_SingleQuoted == <<"{", "'", "a", "'", ":", " ", "'", "b", "'", "}">>

Span_UnquotedKeys == <<"{", "b", "u", "s", "i", "n", "e", "s", "s", "T", "y", "p", "e", ":", " ", "'", "W", "e", "a", "v", "i", "n", "g", "'", ",", " ", "c", "o", "n", "f", "i", "d", "e", "n", "c", "e", ":", " ", "-", "1", "0", ",", " ", "t", "o", "p", "P", "r", "o", "b", "l", "e", "m", "s", ":", " ", "[", "'", "x", "'", ",", "]", ",", "}">>

Span_NestedTrailing == <<"{", "\"", "t", "o", "p", "P", "r", "o", "b", "l", "e", "m", "s", "\"", ":", "[", "\"", "p", "\"", ",", "]", ",", " ", "\"", "c", "o", "n", "f", "i", "d", "e", "n", "c", "e", "\"", ":", "4", "0", " ", ",", " ", "}">>

Span_Valid == <<"{", "\"", "b", "u", "s", "i", "n", "e", "s", "s", "T", "y", "p", "e", "\"", ":", "\"", "P", "o", "t", "t", "e", "r", "y", "\"", ",", "\"", "c", "o", "n", "f", "i", "d", "e", "n", "c", "e", "\"", ":", "9", "2", "}">>

Span_TwoUnclosed == <<"{", "\"", "a", "\"", ":", "{", "\"", "b", "\"", ":", "{", "\"", "c", "o", "n", "f", "i", "d", "e", "n", "c", "e", "\"", ":", "7", "}">>

Span_DoubleComma == <<"{", "\"", "a", "\"", ":", "1", ",", ",", "}">>

CuratedTexts ==
  {Text_NoBraces, Text_EndToEnd, Text_FencedObject, Text_FenceNoClose, Text_BracesOutsideFence,
   Text_EmptyFence, Text_TruncatedNoClose, Text_Truncated, Text_FullAnalysis, Text_ProseAround}

CuratedSpans ==
  {Span_TrailingComma, Span_UnclosedBrace, Span_ColonInString, Span_BraceInString,
   Span_CommaBraceInString, Span_SingleQuoted, Span_UnquotedKeys, Span_NestedTrailing,
   Span_Valid, Span_TwoUnclosed, Span_DoubleComma}

\* what a model puts before and after its JSON
Prefixes == {<<>>, <<"O", "K", ":", " ">>, Fence, Fence \o <<"j", "s", "o", "n", "\n">>}

Suffixes == {<<>>, <<"\n">> \o Fence, <<" ", "e", "n", "d", ".">>, <<"\n">> \o Fence \o <<"\n", "{", "}">>}

WrappedSpans == {pre \o span \o post : pre \in Prefixes, span \in CuratedSpans, post \in Suffixes}

\* the longest enumerated text
MaxLen == 4

EnumAlphabet == {"{", "}", ":", ",", "a", "1", "\""}

RECURSIVE StringsOfLen(_)
StringsOfLen(n) ==
  IF n = 0 THEN {<<>>} ELSE {Append(s, c) : s \in StringsOfLen(n - 1), c \in EnumAlphabet}

EnumeratedTexts == UNION {StringsOfLen(n) : n \in 0..MaxLen}

RawTexts == CuratedTexts \cup WrappedSpans \cup EnumeratedTexts

\* ------------------------------------------------------------ parseAIResponse

VARIABLES
  rawText,     \* the argument of parseAIResponse
  pc,          \* the position in parseAIResponse
  jsonStr,     \* the local jsonStr
  repaired,    \* the local repaired
  parsed,      \* what the last successful JSON.parse returned (Undef before)
  result,      \* the object returned (NoAnalysis before, and when it throws)
  outcome,     \* "running", "returned" or "thrown"
  error,       \* the message of the Error thrown ("" when none)
  parseCalls,  \* how many times JSON.parse has been called
  steps,       \* the repair transforms applied, in order
  clients,     \* the module-level client handles: TRUE when the handle is not null
  req,         \* the request a handler was called with
  local,       \* the local variables of the handler that is running
  calls,       \* the upstream calls, waits, normalizer and fallback runs made so far, in order
  responses,   \* the HTTP responses sent (what a plain function returned), in order
  suspended    \* the requests that wait while another one runs: their variables, in order

vars ==
  <<rawText, pc, jsonStr, repaired, parsed, result, outcome, error, parseCalls, steps,
    clients, req, local, calls, responses, suspended>>

\* the variables of the request handlers, which parseAIResponse and
\* validateAndRepairAnalysis taken alone do not touch
handlerVars == <<clients, req, local, calls, responses, suspended>>

\* the variables of parseAIResponse, which the handlers' steps do not touch
parserVars == <<rawText, jsonStr, repaired, parsed, result, outcome, error, parseCalls, steps>>

NoHandler ==
  /\ clients = [speechClient |-> FALSE, generativeAI |-> FALSE]
  /\ req = [none |-> TRUE]
  /\ local = [none |-> TRUE]
  /\ calls = <<>>
  /\ responses = <<>>
  /\ suspended = <<>>

Fresh ==
  /\ jsonStr = <<>>
  /\ repaired = <<>>
  /\ result = NoAnalysis
  /\ outcome = "running"
  /\ error = ""
  /\ parseCalls = 0
  /\ steps = <<>>

Init ==
  /\ rawText \in RawTexts
  /\ pc = "start"
  /\ parsed = Undef
  /\ Fresh
  /\ NoHandler

Throw(message) ==
  /\ pc' = "done"
  /\ outcome' = "thrown"
  /\ error' = message

Return(analysis) ==
  /\ pc' = "done"
  /\ outcome' = "returned"
  /\ result' = analysis

\* lines 166-171: !rawText || typeof rawText !== 'string'
CheckInput ==
  /\ pc = "start"
  /\ IF Len(rawText) = 0
       THEN /\ Throw("Invalid AI response - empty or non-string")
            /\ UNCHANGED jsonStr
       ELSE /\ pc' = "extract"
            /\ jsonStr' = rawText
            /\ UNCHANGED <<outcome, error>>
  /\ UNCHANGED <<rawText, repaired, parsed, result, parseCalls, steps>>
  /\ UNCHANGED handlerVars

\* lines 173-187: the code block, the braces, the substring
Extract ==
  /\ pc = "extract"
  /\ LET text == StripCodeBlock(jsonStr) IN
     IF NoJsonObject(FirstBrace(text), LastBrace(text))
       THEN /\ Throw("No valid JSON object found in AI response")
            /\ jsonStr' = text
       ELSE /\ pc' = "parse"
            /\ jsonStr' = BraceSpan(text)
            /\ UNCHANGED <<outcome, error>>
  /\ UNCHANGED <<rawText, repaired, parsed, result, parseCalls, steps>>
  /\ UNCHANGED handlerVars

\* faulty variant: a successful direct parse does not return, the repair runs as well
DirectParseThenRepair ==
  /\ pc = "parse"
  /\ parseCalls' = parseCalls + 1
  /\ pc' = "quoteKeys"
  /\ repaired' = jsonStr
  /\ parsed' = IF JSONParse(jsonStr).ok THEN JSONParse(jsonStr).v ELSE parsed
  /\ UNCHANGED <<rawText, jsonStr, result, outcome, error, steps>>
  /\ UNCHANGED handlerVars

\* lines 189-195: the direct parse
DirectParse ==
  /\ pc = "parse"
  /\ parseCalls' = parseCalls + 1
  /\ IF JSONParse(jsonStr).ok
       THEN /\ parsed' = JSONParse(jsonStr).v
            /\ Return(validateAndRepairAnalysis(JSONParse(jsonStr).v))
            /\ UNCHANGED <<repaired, error>>
       ELSE /\ pc' = "quoteKeys"
            /\ repaired' = jsonStr
            /\ UNCHANGED <<parsed, result, outcome, error>>
  /\ UNCHANGED <<rawText, jsonStr, steps>>
  /\ UNCHANGED handlerVars

RepairStep(at, next, transformed) ==
  /\ pc = at
  /\ pc' = next
  /\ repaired' = transformed
  /\ steps' = Append(steps, at)
  /\ UNCHANGED <<rawText, jsonStr, parsed, result, outcome, error, parseCalls>>
  /\ UNCHANGED handlerVars

\* line 201
RepairQuoteKeys == RepairStep("quoteKeys", "singleQuotes", QuoteKeys(repaired))

\* line 203
RepairSingleQuotes == RepairStep("singleQuotes", "trailingCommas", SingleToDouble(repaired))

\* line 205
RepairTrailingCommas == RepairStep("trailingCommas", "balanceBraces", RemoveTrailingCommas(repaired))

\* lines 209-214
RepairBalanceBraces == RepairStep("balanceBraces", "reparse", BalanceBraces(repaired))

\* faulty variant: a failed second parse is not caught
ReparseThrows ==
  /\ pc = "reparse"
  /\ parseCalls' = parseCalls + 1
  /\ IF JSONParse(repaired).ok
       THEN /\ parsed' = JSONParse(repaired).v
            /\ Return(validateAndRepairAnalysis(JSONParse(repaired).v))
            /\ UNCHANGED error
       ELSE /\ Throw("Unexpected token in JSON")
            /\ UNCHANGED <<parsed, result>>
  /\ UNCHANGED <<rawText, jsonStr, repaired, steps>>
  /\ UNCHANGED handlerVars

\* lines 216-223: the second parse, and the fallback when it fails
Reparse ==
  /\ pc = "reparse"
  /\ parseCalls' = parseCalls + 1
  /\ IF JSONParse(repaired).ok
       THEN /\ parsed' = JSONParse(repaired).v
            /\ Return(validateAndRepairAnalysis(JSONParse(repaired).v))
       ELSE /\ Return(createFallbackAnalysis(S_JSONParsingFailed))
            /\ UNCHANGED parsed
  /\ UNCHANGED <<rawText, jsonStr, repaired, error, steps>>
  /\ UNCHANGED handlerVars

Next ==
  \/ CheckInput
  \/ Extract
  \/ DirectParse
  \/ RepairQuoteKeys
  \/ RepairSingleQuotes
  \/ RepairTrailingCommas
  \/ RepairBalanceBraces
  \/ Reparse

Spec == Init /\ [][Next]_vars

\* ------------------------------------------------------------ validateAndRepairAnalysis alone

\* how far the numeric confidences tried reach below 0 and above 100
NumSpread == 3

\* a member of an object, none when the value is absent
Member(key, v) == IF v = Undef THEN <<>> ELSE <<[k |-> key, v |-> v]>>

S_tiktok == <<"t", "i", "k", "t", "o", "k">>

BusinessTypeValues == {Undef, Null, Num(5), Str(<<>>), Str(<<"P", "o", "t">>)}

DetectedFocusValues == {Undef, Str(<<>>), Str(<<"F">>)}

TopProblemsValues ==
  {Undef, Null, Str(<<"x">>), Obj(<<>>), Arr(<<>>), Arr(<<Str(<<>>)>>), Arr(<<Num(1)>>),
   Arr(<<Str(<<"x">>)>>), Arr(<<Str(<<"x">>), Num(5), Str(<<>>), Str(<<"y">>), Null>>)}

PrimaryIds ==
  {Undef, Null, Str(<<>>), Str(S_website), Str(S_whatsapp), Str(S_instagram), Str(S_tiktok),
   Num(0), Num(5), Bool(TRUE), Arr(<<Str(S_website)>>)}

PrimaryReasons == {Undef, Str(<<>>), Str(<<"r">>), Num(5), Bool(TRUE), Obj(<<>>)}

SecondaryIds == {Undef, Str(S_website), Str(S_instagram), Str(S_tiktok), Num(7)}

SecondaryReasons == {Undef, Str(<<"s">>), Arr(<<>>)}

SolutionValues(ids, reasons) ==
  {Undef, Null, Str(<<"p">>)} \cup {Obj(Member(K_id, i) \o Member(K_reason, r)) : i \in ids, r \in reasons}

RecommendedValues ==
  {Undef, Null, Str(<<"x">>), Arr(<<>>)}
    \cup {Obj(Member(K_primary, a) \o Member(K_secondary, b)) :
            a \in SolutionValues(PrimaryIds, PrimaryReasons),
            b \in SolutionValues(SecondaryIds, SecondaryReasons)}

ConfidenceNumbers ==
  {Num(n) : n \in (ConfidenceMin - NumSpread)..(ConfidenceMax + NumSpread)}
    \cup {Num(150), Num(0 - 10), Canon(855, 0 - 1), Canon(1005, 0 - 1), Canon(5, 0 - 1), Canon(0 - 5, 0 - 1)}

ConfidenceStrings ==
  {Str(<<>>), Str(<<"8", "7">>), Str(<<"1", "5", "0">>), Str(<<"-", "1", "0">>), Str(<<"a", "b", "c">>),
   Str(<<" ", "4", "2", "p", "x">>), Str(<<"0", "x", "1", "F">>), Str(<<"0", "x", "F", "F">>),
   Str(<<"1", "2", ".", "9">>), Str(<<"+", "7">>), Str(<<"1", "e", "3">>), Str(<<"-">>)}

ConfidenceValues ==
  ConfidenceNumbers \cup ConfidenceStrings \cup {Undef, Null, Bool(TRUE), Arr(<<Num(50)>>), Obj(<<>>)}

Payload(bt, df, tp, rs, c) ==
  Obj(Member(K_businessType, bt) \o Member(K_detectedFocus, df) \o Member(K_topProblems, tp)
        \o Member(K_recommendedSolutions, rs) \o Member(K_confidence, c))

\* the parsed payloads tried: every field varies over its values while the
\* fields the code treats independently of it stay at a few values
Payloads ==
  {Payload(bt, df, tp, Undef, Undef) :
     bt \in BusinessTypeValues, df \in DetectedFocusValues, tp \in TopProblemsValues}
    \cup {Payload(Undef, Undef, Undef, rs, c) : rs \in RecommendedValues, c \in {Undef, Num(150)}}
    \cup {Payload(bt, Undef, Undef, Undef, c) :
            bt \in {Undef, Str(<<"P", "o", "t">>)}, c \in ConfidenceValues}

\* payloads that are complete analysis records already; a reason may be the
\* empty string
ValidPayloads ==
  {Payload(Str(<<"P", "o", "t">>), Str(<<"F">>), tp,
           Obj(Member(K_primary, Obj(Member(K_id, Str(a)) \o Member(K_reason, Str(ra))))
                 \o Member(K_secondary, Obj(Member(K_id, Str(b)) \o Member(K_reason, Str(rb))))),
           c) :
     tp \in {Arr(<<Str(<<"x">>)>>), Arr(<<Str(<<"x">>), Str(<<"y">>)>>)},
     a \in {S_website, S_whatsapp, S_instagram}, ra \in {<<"r">>, <<>>},
     b \in {S_website, S_whatsapp, S_instagram}, rb \in {<<"s">>, <<>>},
     c \in {Num(ConfidenceMin), Num(50), Num(ConfidenceMax), Canon(855, 0 - 1)}}

InitNorm ==
  /\ rawText = <<>>
  /\ pc = "validate"
  /\ parsed \in Payloads \cup ValidPayloads
  /\ Fresh
  /\ NoHandler

\* validateAndRepairAnalysis(parsed), lines 229-270
Validate ==
  /\ pc = "validate"
  /\ Return(validateAndRepairAnalysis(parsed))
  /\ UNCHANGED <<rawText, jsonStr, repaired, parsed, error, parseCalls, steps>>
  /\ UNCHANGED handlerVars

NextNorm == Validate

SpecNorm == InitNorm /\ [][NextNorm]_vars

\* ------------------------------------------------------------ messages of parseAIResponse

M_InvalidAIResponse == <<"I", "n", "v", "a", "l", "i", "d", " ", "A", "I", " ", "r", "e", "s", "p", "o", "n", "s", "e", " ", "-", " ", "e", "m", "p", "t", "y", " ", "o", "r", " ", "n", "o", "n", "-", "s", "t", "r", "i", "n", "g">>

M_NoValidJSON == <<"N", "o", " ", "v", "a", "l", "i", "d", " ", "J", "S", "O", "N", " ", "o", "b", "j", "e", "c", "t", " ", "f", "o", "u", "n", "d", " ", "i", "n", " ", "A", "I", " ", "r", "e", "s", "p", "o", "n", "s", "e">>

\* the message of the Error parseAIResponse has thrown, as text
ErrorMessage ==
  IF error = "Invalid AI response - empty or non-string" THEN M_InvalidAIResponse ELSE M_NoValidJSON

\* ------------------------------------------------------------ analyzeBusinessAudio

M_SpeechUnavailable == <<"S", "p", "e", "e", "c", "h", " ", "r", "e", "c", "o", "g", "n", "i", "t", "i", "o", "n", " ", "s", "e", "r", "v", "i", "c", "e", " ", "n", "o", "t", " ", "a", "v", "a", "i", "l", "a", "b", "l", "e">>

M_AllFormatsFailed == <<"S", "p", "e", "e", "c", "h", " ", "r", "e", "c", "o", "g", "n", "i", "t", "i", "o", "n", " ", "f", "a", "i", "l", "e", "d", " ", "w", "i", "t", "h", " ", "a", "l", "l", " ", "f", "o", "r", "m", "a", "t", "s", ".", " ", "L", "a", "s", "t", " ", "e", "r", "r", "o", "r", ":", " ">>

M_Unknown == <<"U", "n", "k", "n", "o", "w", "n">>

M_NoAudioFileUploaded == <<"N", "o", " ", "a", "u", "d", "i", "o", " ", "f", "i", "l", "e", " ", "u", "p", "l", "o", "a", "d", "e", "d">>

M_NoAudioFileProvided == <<"N", "o", " ", "a", "u", "d", "i", "o", " ", "f", "i", "l", "e", " ", "p", "r", "o", "v", "i", "d", "e", "d">>

M_TranscriptionFailed == <<"T", "r", "a", "n", "s", "c", "r", "i", "p", "t", "i", "o", "n", " ", "f", "a", "i", "l", "e", "d">>

M_ServerError == <<"S", "e", "r", "v", "e", "r", " ", "e", "r", "r", "o", "r">>

M_InternalServerError == <<"I", "n", "t", "e", "r", "n", "a", "l", " ", "s", "e", "r", "v", "e", "r", " ", "e", "r", "r", "o", "r">>

M_VertexNotInitialized == <<"V", "e", "r", "t", "e", "x", " ", "A", "I", " ", "n", "o", "t", " ", "i", "n", "i", "t", "i", "a", "l", "i", "z", "e", "d">>

M_VertexUnavailable == <<"V", "e", "r", "t", "e", "x", " ", "A", "I", " ", "u", "n", "a", "v", "a", "i", "l", "a", "b", "l", "e">>

M_VertexErrorPrefix == <<"V", "e", "r", "t", "e", "x", " ", "A", "I", " ", "e", "r", "r", "o", "r", ":", " ">>

M_NoResponseText == <<"N", "o", " ", "v", "a", "l", "i", "d", " ", "r", "e", "s", "p", "o", "n", "s", "e", " ", "t", "e", "x", "t", " ", "f", "o", "u", "n", "d", " ", "i", "n", " ", "V", "e", "r", "t", "e", "x", " ", "A", "I", " ", "r", "e", "s", "u", "l", "t">>

M_AIAnalysisFailed == <<"A", "I", " ", "a", "n", "a", "l", "y", "s", "i", "s", " ", "f", "a", "i", "l", "e", "d">>

M_DeadlineExceeded == <<"D", "E", "A", "D", "L", "I", "N", "E", "_", "E", "X", "C", "E", "E", "D", "E", "D">>

M_BadEncoding == <<"I", "n", "v", "a", "l", "i", "d", " ", "a", "u", "d", "i", "o", " ", "e", "n", "c", "o", "d", "i", "n", "g">>

M_NoTranscript == <<"C", "a", "n", "n", "o", "t", " ", "r", "e", "a", "d", " ", "p", "r", "o", "p", "e", "r", "t", "i", "e", "s", " ", "o", "f", " ", "u", "n", "d", "e", "f", "i", "n", "e", "d", " ", "(", "r", "e", "a", "d", "i", "n", "g", " ", "'", "t", "r", "a", "n", "s", "c", "r", "i", "p", "t", "'", ")">>

T_Pots == <<"I", " ", "s", "e", "l", "l", " ", "c", "l", "a", "y", " ", "p", "o", "t", "s">>

T_Hello == <<"h", "e", "l", "l", "o">>

T_World == <<"w", "o", "r", "l", "d">>

T_TenChars == <<"c", "l", "a", "y", " ", "p", "o", "t", "s", ".">>

T_Padded == <<" ", " ", " ", "c", "l", "a", "y", " ", "p", "o", "t", "s", " ", " ", " ">>

\* lines 84-89
encodingConfigs == <<"WEBM_OPUS", "MP3", "WAV", "OGG_OPUS">>

\* line 129: a transcription must be longer than this
MinTranscriptLength == 10

\* line 135: the confidence, in hundredths, of a result that carries none
DefaultResultConfidence == 80

\* String.prototype.trim
Trim(s) ==
  LET keep == {i \in 1..Len(s) : s[i] \notin RegexSpace} IN
  IF keep = {} THEN <<>> ELSE SubSeq(s, Least(keep), Greatest(keep))

\* results.map(result => result.alternatives[0].transcript).join(" ")
RECURSIVE JoinTranscripts(_)
JoinTranscripts(results) ==
  IF results = <<>> THEN <<>>
  ELSE IF Len(results) = 1 THEN results[1].transcript
  ELSE results[1].transcript \o <<" ">> \o JoinTranscripts(Tail(results))

\* the sum of lines 134-136, in hundredths; a confidence of 0 stands for none
RECURSIVE SumConfidence(_)
SumConfidence(results) ==
  IF results = <<>> THEN 0
  ELSE (IF results[1].confidence = 0 THEN DefaultResultConfidence ELSE results[1].confidence)
         + SumConfidence(Tail(results))

\* Math.round(avgConfidence * 100)
AverageConfidence(results) == (2 * SumConfidence(results) + Len(results)) \div (2 * Len(results))

RecognizeResult(transcript, confidence) == [transcript |-> transcript, confidence |-> confidence]

\* what speechClient.recognize may answer for one encoding: it rejects, it
\* resolves with results (none, too short a text, a long enough text), or it
\* resolves with a result that holds no alternative
RecognizeOutcomes ==
  {[kind |-> "rejects", message |-> m, results |-> <<>>] : m \in {M_BadEncoding, M_DeadlineExceeded}}
    \cup {[kind |-> "malformed", message |-> M_NoTranscript, results |-> <<>>]}
    \cup {[kind |-> "resolves", message |-> <<>>, results |-> r] :
            r \in {<<>>,
                   <<RecognizeResult(T_TenChars, 90)>>,
                   <<RecognizeResult(T_Padded, 0)>>,
                   <<RecognizeResult(T_Pots, 90)>>,
                   <<RecognizeResult(T_Hello, 0), RecognizeResult(T_World, 90)>>}}

\* the model texts tried in the handlers
ResponseTexts == CuratedTexts \cup CuratedSpans

\* what generativeAI.generateContent may answer: it rejects, it resolves with
\* no text, or it resolves with a text
GenerateOutcomes ==
  {[kind |-> "rejects", message |-> M_DeadlineExceeded, text |-> <<>>],
   [kind |-> "noText", message |-> <<>>, text |-> <<>>]}
    \cup {[kind |-> "text", message |-> <<>>, text |-> t] : t \in ResponseTexts}

\* one entry of calls
Call(op, encoding, reason) == [op |-> op, encoding |-> encoding, reason |-> reason]

\* the body of a response of analyzeBusinessAudio
AudioResponse(status, success, partial, message, transcript, confidence, analysis) ==
  [status |-> status, success |-> success, partial |-> partial, error |-> message,
   transcript |-> transcript, transcriptionConfidence |-> confidence, analysis |-> analysis]

\* res.status(...).json(...) and return
Send(response) ==
  /\ responses' = Append(responses, response)
  /\ pc' = "responded"

AudioLocals ==
  [attempt |-> 1, lastError |-> Undef, transcript |-> <<>>, confidence |-> 0, encoding |-> ""]

InitAudio ==
  /\ rawText = <<>>
  /\ pc = "audio"
  /\ parsed = Undef
  /\ Fresh
  /\ clients \in [speechClient : BOOLEAN, generativeAI : BOOLEAN]
  /\ req \in [hasFile : BOOLEAN]
  /\ local = AudioLocals
  /\ calls = <<>>
  /\ responses = <<>>
  /\ suspended = <<>>

\* lines 403-411: the request without a file is refused
ReceiveAudio ==
  /\ pc = "audio"
  /\ IF ~req.hasFile
       THEN /\ calls' = Append(calls, Call("createFallbackAnalysis", "", M_NoAudioFileProvided))
            /\ Send(AudioResponse(400, FALSE, FALSE, Str(M_NoAudioFileUploaded), Undef, Undef,
                                  createFallbackAnalysis(M_NoAudioFileProvided)))
       ELSE /\ pc' = "transcribe"
            /\ UNCHANGED <<calls, responses>>
  /\ UNCHANGED <<suspended, clients, req, local, parserVars>>

\* faulty variant: a handler that finds the speech handle null sets it
TranscribeStartInitializes ==
  /\ pc = "transcribe"
  /\ clients' = [clients EXCEPT !.speechClient = TRUE]
  /\ pc' = "recognize"
  /\ UNCHANGED <<suspended, req, local, calls, responses, parserVars>>

\* lines 78-81: transcribeAudio throws without a speech client, and the catch
\* of lines 473-485 answers
TranscribeStart ==
  /\ pc = "transcribe"
  /\ IF ~clients.speechClient
       THEN /\ calls' = Append(calls, Call("createFallbackAnalysis", "", M_ServerError))
            /\ Send(AudioResponse(500, FALSE, FALSE, Str(M_InternalServerError), Undef, Undef,
                                  createFallbackAnalysis(M_ServerError)))
       ELSE /\ pc' = "recognize"
            /\ UNCHANGED <<calls, responses>>
  /\ UNCHANGED <<suspended, clients, req, local, parserVars>>

\* faulty variant: a transcription of any length ends the loop
RecognizeAnyLength ==
  /\ pc = "recognize"
  /\ local.attempt <= Len(encodingConfigs)
  /\ \E o \in RecognizeOutcomes :
       LET encoding == encodingConfigs[local.attempt]
           transcription == Trim(JoinTranscripts(o.results))
       IN /\ calls' = Append(calls, Call("recognize", encoding, <<>>))
          /\ IF o.kind = "resolves" /\ Len(o.results) > 0
               THEN /\ local' = [local EXCEPT !.transcript = transcription,
                                              !.confidence = AverageConfidence(o.results),
                                              !.encoding = encoding]
                    /\ pc' = "analyze"
               ELSE /\ local' = [local EXCEPT !.attempt = @ + 1,
                                              !.lastError = IF o.kind = "resolves" THEN @ ELSE Str(o.message)]
                    /\ pc' = "recognize"
  /\ UNCHANGED <<suspended, clients, req, responses, parserVars>>

\* lines 93-153: one turn of the loop over encodingConfigs
Recognize ==
  /\ pc = "recognize"
  /\ local.attempt <= Len(encodingConfigs)
  /\ \E o \in RecognizeOutcomes :
       LET encoding == encodingConfigs[local.attempt]
           transcription == Trim(JoinTranscripts(o.results))
       IN /\ calls' = Append(calls, Call("recognize", encoding, <<>>))
          /\ IF o.kind = "resolves" /\ Len(o.results) > 0 /\ Len(transcription) > MinTranscriptLength
               THEN /\ local' = [local EXCEPT !.transcript = transcription,
                                              !.confidence = AverageConfidence(o.results),
                                              !.encoding = encoding]
                    /\ pc' = "analyze"
               ELSE /\ local' = [local EXCEPT !.attempt = @ + 1,
                                              !.lastError = IF o.kind = "resolves" THEN @ ELSE Str(o.message)]
                    /\ pc' = "recognize"
  /\ UNCHANGED <<suspended, clients, req, responses, parserVars>>

\* faulty variant: the analysis is started although no encoding gave a
\* transcription
TranscriptionFailedAnalyzes ==
  /\ pc = "recognize"
  /\ local.attempt > Len(encodingConfigs)
  /\ pc' = "analyze"
  /\ UNCHANGED <<suspended, clients, req, local, calls, responses, parserVars>>

\* lines 155-159 and 425-433: no encoding gave a transcription
TranscriptionFailed ==
  /\ pc = "recognize"
  /\ local.attempt > Len(encodingConfigs)
  /\ calls' = Append(calls, Call("createFallbackAnalysis", "", M_TranscriptionFailed))
  /\ Send(AudioResponse(200, FALSE, FALSE,
                        Str(M_AllFormatsFailed \o (IF local.lastError = Undef THEN M_Unknown ELSE local.lastError.s)),
                        Undef, Undef, createFallbackAnalysis(M_TranscriptionFailed)))
  /\ UNCHANGED <<suspended, clients, req, local, parserVars>>

\* faulty variant: the failed analysis is answered with the normalizer's
\* defaults instead of the fallback record
AnalysisFailedNormalizes(made, message, reason) ==
  /\ calls' = calls \o made \o <<Call("validateAndRepairAnalysis", "", <<>>)>>
  /\ Send(AudioResponse(200, TRUE, TRUE, Str(message), Str(local.transcript), Num(local.confidence),
                        validateAndRepairAnalysis(Obj(<<>>))))

\* lines 383-392 and 444-454: the analysis failed with message; the fallback
\* of analyzeTranscriptWithVertexAI is sent with the transcript
AnalysisFailed(made, message, reason) ==
  /\ calls' = calls \o made \o <<Call("createFallbackAnalysis", "", reason)>>
  /\ Send(AudioResponse(200, TRUE, TRUE, Str(message), Str(local.transcript), Num(local.confidence),
                        createFallbackAnalysis(reason)))

\* lines 302-309: no generative client
AnalyzeStart ==
  /\ pc = "analyze"
  /\ IF ~clients.generativeAI
       THEN AnalysisFailed(<<>>, M_VertexNotInitialized, M_VertexUnavailable)
       ELSE /\ pc' = "generate"
            /\ UNCHANGED <<calls, responses>>
  /\ UNCHANGED <<suspended, clients, req, local, parserVars>>

\* lines 340-373: the call of the model, the text of its answer, and the call
\* of parseAIResponse with it
GenerateContent ==
  /\ pc = "generate"
  /\ \E o \in GenerateOutcomes :
       LET made == <<Call("generateContent", "", <<>>)>> IN
       CASE o.kind = "rejects" ->
              /\ AnalysisFailed(made, o.message, M_VertexErrorPrefix \o o.message)
              /\ UNCHANGED rawText
         [] o.kind = "noText" ->
              /\ AnalysisFailed(made, M_NoResponseText, M_VertexErrorPrefix \o M_NoResponseText)
              /\ UNCHANGED rawText
         [] o.kind = "text" ->
              /\ calls' = calls \o made
              /\ rawText' = o.text
              /\ pc' = "start"
              /\ UNCHANGED responses
  /\ UNCHANGED <<suspended, clients, req, local, jsonStr, repaired, parsed, result, outcome, error, parseCalls, steps>>

\* lines 373-392 and 444-471: parseAIResponse has returned or thrown, and the
\* handler answers; validateAndRepairAnalysis has run exactly when a parse
\* succeeded
ParseResponse ==
  /\ pc = "done"
  /\ IF outcome = "thrown"
       THEN AnalysisFailed(<<>>, ErrorMessage, M_VertexErrorPrefix \o ErrorMessage)
       ELSE /\ calls' = Append(calls, IF parsed # Undef THEN Call("validateAndRepairAnalysis", "", <<>>)
                                      ELSE Call("createFallbackAnalysis", "", S_JSONParsingFailed))
            /\ Send(AudioResponse(200, TRUE, FALSE, Undef, Str(local.transcript),
                                  Num(local.confidence), result))
  /\ UNCHANGED <<suspended, clients, req, local, parserVars>>

NextAudio ==
  \/ ReceiveAudio
  \/ TranscribeStart
  \/ Recognize
  \/ TranscriptionFailed
  \/ AnalyzeStart
  \/ GenerateContent
  \/ CheckInput
  \/ Extract
  \/ DirectParse
  \/ RepairQuoteKeys
  \/ RepairSingleQuotes
  \/ RepairTrailingCommas
  \/ RepairBalanceBraces
  \/ Reparse
  \/ ParseResponse

SpecAudio == InitAudio /\ [][NextAudio]_vars

\* ------------------------------------------------------------ generateQuotation

K_productName == <<"p", "r", "o", "d", "u", "c", "t", "N", "a", "m", "e">>

K_productType == <<"p", "r", "o", "d", "u", "c", "t", "T", "y", "p", "e">>

K_complexity == <<"c", "o", "m", "p", "l", "e", "x", "i", "t", "y">>

K_region == <<"r", "e", "g", "i", "o", "n">>

K_basePrice == <<"b", "a", "s", "e", "P", "r", "i", "c", "e">>

K_priceRange == <<"p", "r", "i", "c", "e", "R", "a", "n", "g", "e">>

K_min == <<"m", "i", "n">>

K_max == <<"m", "a", "x">>

K_breakdown == <<"b", "r", "e", "a", "k", "d", "o", "w", "n">>

K_materials == <<"m", "a", "t", "e", "r", "i", "a", "l", "s">>

K_labor == <<"l", "a", "b", "o", "r">>

K_artisanSkill == <<"a", "r", "t", "i", "s", "a", "n", "S", "k", "i", "l", "l">>

K_profit == <<"p", "r", "o", "f", "i", "t">>

K_customizationPricing == <<"c", "u", "s", "t", "o", "m", "i", "z", "a", "t", "i", "o", "n", "P", "r", "i", "c", "i", "n", "g">>

K_colorVariation == <<"c", "o", "l", "o", "r", "V", "a", "r", "i", "a", "t", "i", "o", "n">>

K_sizeIncrease == <<"s", "i", "z", "e", "I", "n", "c", "r", "e", "a", "s", "e">>

K_personalEngraving == <<"p", "e", "r", "s", "o", "n", "a", "l", "E", "n", "g", "r", "a", "v", "i", "n", "g">>

K_rushDelivery == <<"r", "u", "s", "h", "D", "e", "l", "i", "v", "e", "r", "y">>

K_marketComparison == <<"m", "a", "r", "k", "e", "t", "C", "o", "m", "p", "a", "r", "i", "s", "o", "n">>

K_localMarket == <<"l", "o", "c", "a", "l", "M", "a", "r", "k", "e", "t">>

K_onlineMarket == <<"o", "n", "l", "i", "n", "e", "M", "a", "r", "k", "e", "t">>

K_premiumJustification == <<"p", "r", "e", "m", "i", "u", "m", "J", "u", "s", "t", "i", "f", "i", "c", "a", "t", "i", "o", "n">>

K_bulkDiscounts == <<"b", "u", "l", "k", "D", "i", "s", "c", "o", "u", "n", "t", "s">>

K_quantity5 == <<"q", "u", "a", "n", "t", "i", "t", "y", "5">>

K_quantity10 == <<"q", "u", "a", "n", "t", "i", "t", "y", "1", "0">>

K_quantity25 == <<"q", "u", "a", "n", "t", "i", "t", "y", "2", "5">>

K_notes == <<"n", "o", "t", "e", "s">>

K_fallback == <<"f", "a", "l", "l", "b", "a", "c", "k">>

M_ProductNameRequired == <<"P", "r", "o", "d", "u", "c", "t", " ", "n", "a", "m", "e", " ", "r", "e", "q", "u", "i", "r", "e", "d">>

M_ProvideProductName == <<"P", "l", "e", "a", "s", "e", " ", "p", "r", "o", "v", "i", "d", "e", " ", "a", " ", "p", "r", "o", "d", "u", "c", "t", " ", "n", "a", "m", "e", " ", "f", "o", "r", " ", "q", "u", "o", "t", "a", "t", "i", "o", "n">>

M_QuotationFailed == <<"Q", "u", "o", "t", "a", "t", "i", "o", "n", " ", "g", "e", "n", "e", "r", "a", "t", "i", "o", "n", " ", "f", "a", "i", "l", "e", "d">>

M_NotAFunction == <<"p", "r", "o", "d", "u", "c", "t", "T", "y", "p", "e", "?", ".", "t", "o", "L", "o", "w", "e", "r", "C", "a", "s", "e", " ", "i", "s", " ", "n", "o", "t", " ", "a", " ", "f", "u", "n", "c", "t", "i", "o", "n">>

S_TemplateNotes == <<"T", "e", "m", "p", "l", "a", "t", "e", "-", "b", "a", "s", "e", "d", " ", "p", "r", "i", "c", "i", "n", "g", " ", "w", "i", "t", "h", " ", "I", "n", "d", "i", "a", "n", " ", "m", "a", "r", "k", "e", "t", " ", "c", "o", "n", "s", "i", "d", "e", "r", "a", "t", "i", "o", "n", "s">>

S_AINotes == <<"A", "I", "-", "g", "e", "n", "e", "r", "a", "t", "e", "d", " ", "p", "r", "i", "c", "i", "n", "g", " ", "a", "n", "a", "l", "y", "s", "i", "s">>

S_TemplateLocal == <<"1", "0", "-", "1", "5", "%", " ", "c", "o", "m", "p", "e", "t", "i", "t", "i", "v", "e", " ", "w", "i", "t", "h", " ", "l", "o", "c", "a", "l", " ", "a", "r", "t", "i", "s", "a", "n", "s">>

S_TemplateOnline == <<"f", "a", "i", "r", " ", "p", "r", "i", "c", "i", "n", "g", " ", "f", "o", "r", " ", "h", "a", "n", "d", "m", "a", "d", "e", " ", "q", "u", "a", "l", "i", "t", "y">>

S_TemplatePremium == <<"a", "u", "t", "h", "e", "n", "t", "i", "c", " ", "c", "r", "a", "f", "t", "s", "m", "a", "n", "s", "h", "i", "p", " ", "+", " ", "q", "u", "a", "l", "i", "t", "y", " ", "m", "a", "t", "e", "r", "i", "a", "l", "s">>

S_DefaultLocal == <<"c", "o", "m", "p", "e", "t", "i", "t", "i", "v", "e", " ", "p", "r", "i", "c", "i", "n", "g">>

S_DefaultOnline == <<"f", "a", "i", "r", " ", "f", "o", "r", " ", "h", "a", "n", "d", "m", "a", "d", "e", " ", "q", "u", "a", "l", "i", "t", "y">>

S_DefaultPremium == <<"a", "u", "t", "h", "e", "n", "t", "i", "c", " ", "c", "r", "a", "f", "t", "s", "m", "a", "n", "s", "h", "i", "p">>

S_vertexAI == <<"v", "e", "r", "t", "e", "x", "-", "a", "i">>

S_template == <<"t", "e", "m", "p", "l", "a", "t", "e">>

\* one member of an object literal
Field(key, v) == [k |-> key, v |-> v]

\* String.prototype.toLowerCase
ToLowerCase(s) ==
  LET upper == <<"A","B","C","D","E","F","G","H","I","J","K","L","M","N","O","P","Q","R","S","T","U","V","W","X","Y","Z">>
      lower == <<"a","b","c","d","e","f","g","h","i","j","k","l","m","n","o","p","q","r","s","t","u","v","w","x","y","z">>
  IN [i \in 1..Len(s) |->
        IF \E j \in 1..26 : upper[j] = s[i] THEN lower[CHOOSE j \in 1..26 : upper[j] = s[i]] ELSE s[i]]

\* a number of JavaScript that may be NaN
NotANumber == [nan |-> TRUE, v |-> Num(0)]

\* Infinity and -Infinity: numbers above and below every decimal number
Infinity == JSVal("num", FALSE, 1, 999, <<>>, <<>>)

NegativeInfinity == JSVal("num", FALSE, 0 - 1, 999, <<>>, <<>>)

S_Infinity == <<"I", "n", "f", "i", "n", "i", "t", "y">>

IsNumber(v) == [nan |-> FALSE, v |-> v]

\* Number(string): the trimmed text is empty (0), Infinity with an optional
\* sign, or an optional sign, digits and an optional fraction; every other text
\* tried is NaN (no text tried has an exponent or a radix prefix)
StringToNumber(s) ==
  LET t == Trim(s)
      neg == At(t, 1) = "-"
      a == IF At(t, 1) \in {"+", "-"} THEN 2 ELSE 1
      intEnd == RunEnd(t, a, Digits)
      hasFrac == At(t, intEnd) = "."
      fracEnd == IF hasFrac THEN RunEnd(t, intEnd + 1, Digits) ELSE intEnd
      fracLen == IF hasFrac THEN fracEnd - (intEnd + 1) ELSE 0
      intVal == DigitsValue(t, a, intEnd, 0)
      mant == IF hasFrac THEN DigitsValue(t, intEnd + 1, fracEnd, intVal) ELSE intVal
  IN IF t = <<>> THEN IsNumber(Num(0))
     ELSE IF Slice(t, a, Len(t)) = S_Infinity THEN IsNumber(IF neg THEN NegativeInfinity ELSE Infinity)
     ELSE IF fracEnd # Len(t) + 1 \/ (intEnd = a /\ fracLen = 0) THEN NotANumber
     ELSE IsNumber(Canon(IF neg THEN 0 - mant ELSE mant, 0 - fracLen))

\* Number(x): undefined and objects are NaN, null and false are 0, true is 1,
\* a string is read as a number, an array through the text it joins to
RECURSIVE ToNumber(_)
ToNumber(x) ==
  CASE x.t = "num" -> IsNumber(x)
    [] x.t = "null" -> IsNumber(Num(0))
    [] x.t = "bool" -> IsNumber(Num(IF x.b THEN 1 ELSE 0))
    [] x.t = "str" -> StringToNumber(x.s)
    [] x.t = "arr" -> IF Len(x.kids) = 0 THEN IsNumber(Num(0))
                      ELSE IF Len(x.kids) = 1 /\ x.kids[1].v.t \in {"num", "str", "null", "arr"}
                        THEN ToNumber(x.kids[1].v)
                      ELSE NotANumber
    [] OTHER -> NotANumber

\* Number(x) || default
NumberOr(x, default) ==
  LET n == ToNumber(x) IN IF n.nan \/ n.v.m = 0 THEN Num(default) ELSE n.v

\* x < y for two numbers
NumLess(x, y) ==
  LET e == Min(x.e, y.e) IN
  IF x = Infinity \/ y = NegativeInfinity THEN FALSE
  ELSE IF y = Infinity \/ x = NegativeInfinity THEN TRUE
  ELSE x.m * Pow10(x.e - e) < y.m * Pow10(y.e - e)

\* Math.max(x, y) and Math.min(x, y)
MathMax(x, y) == IF NumLess(x, y) THEN y ELSE x

MathMin(x, y) == IF NumLess(y, x) THEN y ELSE x

\* x * 1.5
TimesOneAndHalf(x) == IF x \in {Infinity, NegativeInfinity} THEN x ELSE Canon(x.m * 15, x.e - 1)

\* responseText.replace(/```json\s*|\s*```/g, ''): the places where one of the
\* two alternatives matches, and the end of the match there
JsonFence == Fence \o <<"j", "s", "o", "n">>

FenceMarkEnd(s, i) ==
  IF MatchesAt(s, JsonFence, i) THEN RunEnd(s, i + Len(JsonFence), RegexSpace)
  ELSE IF MatchesAt(s, Fence, RunEnd(s, i, RegexSpace)) THEN RunEnd(s, i, RegexSpace) + Len(Fence)
  ELSE 0

RECURSIVE RemoveFenceMarksFrom(_, _)
RemoveFenceMarksFrom(s, from) ==
  LET at == {i \in from..Len(s) : FenceMarkEnd(s, i) # 0} IN
  IF at = {} THEN Slice(s, from, Len(s))
  ELSE Slice(s, from, Least(at) - 1) \o RemoveFenceMarksFrom(s, FenceMarkEnd(s, Least(at)))

RemoveFenceMarks(s) == RemoveFenceMarksFrom(s, 1)

\* lines 130-136 of the quotation controller and 407-412 of the image
\* enhancer: the cleaned response from its first { to its last }, and whether
\* jsonStart >= 0 && jsonEnd > jsonStart
CleanedResponse(responseText) == Trim(RemoveFenceMarks(responseText))

HasJsonSlice(cleaned) ==
  LET jsonStart == FirstBrace(cleaned) - 1
      jsonEnd == LastBrace(cleaned)
  IN jsonStart >= 0 /\ jsonEnd > jsonStart

\* cleanedResponse.substring(jsonStart, jsonEnd)
JsonSlice(cleaned) == Slice(cleaned, FirstBrace(cleaned), LastBrace(cleaned))
\* line 260: the advertised range of a price, in rupees
PriceMin == 50

PriceMax == 50000

\* basePrices[productType?.toLowerCase()] || basePrices.craft
TemplateKey(x) == IF x.t = "str" THEN ToLowerCase(x.s) ELSE <<>>

BasePriceOf(productType) ==
  LET k == TemplateKey(productType) IN
  CASE k = <<"p", "o", "t", "t", "e", "r", "y">> -> 500
    [] k = <<"t", "e", "x", "t", "i", "l", "e">> -> 800
    [] k = <<"j", "e", "w", "e", "l", "r", "y">> -> 1200
    [] k = <<"w", "o", "o", "d", "w", "o", "r", "k">> -> 600
    [] k = <<"m", "e", "t", "a", "l", "w", "o", "r", "k">> -> 900
    [] OTHER -> 650

\* complexityMultipliers[complexity?.toLowerCase()] || 1.0, in tenths
ComplexityTenths(complexity) ==
  LET k == TemplateKey(complexity) IN
  CASE k = <<"s", "i", "m", "p", "l", "e">> -> 8
    [] k = <<"m", "o", "d", "e", "r", "a", "t", "e">> -> 10
    [] k = <<"c", "o", "m", "p", "l", "e", "x">> -> 14
    [] k = <<"i", "n", "t", "r", "i", "c", "a", "t", "e">> -> 18
    [] OTHER -> 10

\* regionalMultipliers[region?.toLowerCase()] || 1.0, in tenths
RegionTenths(region) ==
  LET k == TemplateKey(region) IN
  CASE k \in {<<"u", "r", "b", "a", "n">>, <<"t", "i", "e", "r", "1">>} -> 12
    [] k = <<"m", "e", "t", "r", "o">> -> 13
    [] k \in {<<"r", "u", "r", "a", "l">>, <<"t", "i", "e", "r", "3">>} -> 9
    [] k = <<"t", "i", "e", "r", "2">> -> 10
    [] OTHER -> 10

\* x?.toLowerCase() throws a TypeError for a value that is neither undefined,
\* null nor a string
LowerCaseThrows(x) == x.t \notin {"undef", "null", "str"}

TemplateThrows(body) ==
  \/ LowerCaseThrows(body.productType)
  \/ LowerCaseThrows(body.complexity)
  \/ LowerCaseThrows(body.region)

\* Math.round(basePrice * complexityFactor * regionalFactor)
FinalBasePrice(body) ==
  (BasePriceOf(body.productType) * ComplexityTenths(body.complexity) * RegionTenths(body.region) + 50)
    \div 100

\* Math.round(finalBasePrice * share) for a share given in hundredths; the
\* double 650 * 0.35 is 227.49999999999997, which rounds down, and every other
\* product of a template price is rounded as the exact product is
TemplateShare(finalBasePrice, hundredths) ==
  IF finalBasePrice = 650 /\ hundredths = 35 THEN 227
  ELSE (finalBasePrice * hundredths + 50) \div 100

TemplateMarketComparison ==
  Obj(<<Field(K_localMarket, Str(S_TemplateLocal)),
        Field(K_onlineMarket, Str(S_TemplateOnline)),
        Field(K_premiumJustification, Str(S_TemplatePremium))>>)

\* lines 184-253; its argument holds no reason
generateFallbackQuotation(body) ==
  LET p == FinalBasePrice(body) IN
  Obj(<<Field(K_basePrice, Num(p)),
        Field(K_priceRange, Obj(<<Field(K_min, Num(TemplateShare(p, 80))),
                                   Field(K_max, Num(TemplateShare(p, 150)))>>)),
        Field(K_breakdown, Obj(<<Field(K_materials, Num(TemplateShare(p, 35))),
                                  Field(K_labor, Num(TemplateShare(p, 45))),
                                  Field(K_artisanSkill, Num(TemplateShare(p, 15))),
                                  Field(K_profit, Num(TemplateShare(p, 15)))>>)),
        Field(K_customizationPricing,
               Obj(<<Field(K_colorVariation, Num(TemplateShare(p, 10))),
                     Field(K_sizeIncrease, Num(TemplateShare(p, 15))),
                     Field(K_personalEngraving, Num(TemplateShare(p, 20))),
                     Field(K_rushDelivery, Num(TemplateShare(p, 25)))>>)),
        Field(K_marketComparison, TemplateMarketComparison),
        Field(K_bulkDiscounts, Obj(<<Field(K_quantity5, Num(8)),
                                      Field(K_quantity10, Num(15)),
                                      Field(K_quantity25, Num(22))>>)),
        Field(K_confidence, Num(82)),
        Field(K_notes, Str(S_TemplateNotes)),
        Field(K_fallback, Bool(TRUE))>>)

DefaultMarketComparison ==
  Obj(<<Field(K_localMarket, Str(S_DefaultLocal)),
        Field(K_onlineMarket, Str(S_DefaultOnline)),
        Field(K_premiumJustification, Str(S_DefaultPremium))>>)

\* Math.max(lo, Math.min(hi, Number(x) || default))
ClampedNumber(x, lo, hi, default) == MathMax(Num(lo), MathMin(Num(hi), NumberOr(x, default)))

\* Math.max(0, Number(x) || 0)
BreakdownAmount(x) == MathMax(Num(0), NumberOr(x, 0))

\* lines 262-263
RangeMin(quotation) == MathMax(Num(PriceMin), NumberOr(Get(Get(quotation, K_priceRange), K_min), 400))

RangeMaxGiven(quotation) ==
  MathMin(Num(PriceMax), NumberOr(Get(Get(quotation, K_priceRange), K_max), 1500))

\* lines 293-295: ensure min < max
RangeMax(quotation) ==
  IF ~NumLess(RangeMin(quotation), RangeMaxGiven(quotation))
    THEN TimesOneAndHalf(RangeMin(quotation))
  ELSE RangeMaxGiven(quotation)

\* lines 258-298
validateQuotation(quotation) ==
  LET breakdown == Get(quotation, K_breakdown)
      custom == Get(quotation, K_customizationPricing)
      bulk == Get(quotation, K_bulkDiscounts)
  IN
  [basePrice |-> ClampedNumber(Get(quotation, K_basePrice), PriceMin, PriceMax, 500),
   priceRange |-> [min |-> RangeMin(quotation), max |-> RangeMax(quotation)],
   breakdown |-> [materials |-> BreakdownAmount(Get(breakdown, K_materials)),
                  labor |-> BreakdownAmount(Get(breakdown, K_labor)),
                  artisanSkill |-> BreakdownAmount(Get(breakdown, K_artisanSkill)),
                  profit |-> BreakdownAmount(Get(breakdown, K_profit))],
   customizationPricing |-> [colorVariation |-> NumberOr(Get(custom, K_colorVariation), 50),
                             sizeIncrease |-> NumberOr(Get(custom, K_sizeIncrease), 100),
                             personalEngraving |-> NumberOr(Get(custom, K_personalEngraving), 150),
                             rushDelivery |-> NumberOr(Get(custom, K_rushDelivery), 200)],
   marketComparison |-> OrElse(Get(quotation, K_marketComparison), DefaultMarketComparison),
   bulkDiscounts |-> [quantity5 |-> ClampedNumber(Get(bulk, K_quantity5), 0, 50, 10),
                      quantity10 |-> ClampedNumber(Get(bulk, K_quantity10), 0, 50, 15),
                      quantity25 |-> ClampedNumber(Get(bulk, K_quantity25), 0, 50, 25)],
   confidence |-> ClampedNumber(Get(quotation, K_confidence), 50, 100, 80),
   notes |-> OrElse(Get(quotation, K_notes), Str(S_AINotes)),
   fallback |-> OrElse(Get(quotation, K_fallback), Bool(FALSE))]

\* the texts the pricing model answers with in the model
Q_Full == <<"{", "\"", "b", "a", "s", "e", "P", "r", "i", "c", "e", "\"", ":", "7", "5", "0", ",", "\"", "p", "r", "i", "c", "e", "R", "a", "n", "g", "e", "\"", ":", "{", "\"", "m", "i", "n", "\"", ":", "6", "0", "0", ",", "\"", "m", "a", "x", "\"", ":", "1", "1", "0", "0", "}", ",", "\"", "b", "r", "e", "a", "k", "d", "o", "w", "n", "\"", ":", "{", "\"", "m", "a", "t", "e", "r", "i", "a", "l", "s", "\"", ":", "2", "6", "0", ",", "\"", "l", "a", "b", "o", "r", "\"", ":", "3", "4", "0", ",", "\"", "a", "r", "t", "i", "s", "a", "n", "S", "k", "i", "l", "l", "\"", ":", "1", "1", "0", ",", "\"", "p", "r", "o", "f", "i", "t", "\"", ":", "4", "0", "}", ",", "\"", "c", "u", "s", "t", "o", "m", "i", "z", "a", "t", "i", "o", "n", "P", "r", "i", "c", "i", "n", "g", "\"", ":", "{", "\"", "c", "o", "l", "o", "r", "V", "a", "r", "i", "a", "t", "i", "o", "n", "\"", ":", "7", "5", ",", "\"", "s", "i", "z", "e", "I", "n", "c", "r", "e", "a", "s", "e", "\"", ":", "1", "1", "0", ",", "\"", "p", "e", "r", "s", "o", "n", "a", "l", "E", "n", "g", "r", "a", "v", "i", "n", "g", "\"", ":", "1", "5", "0", ",", "\"", "r", "u", "s", "h", "D", "e", "l", "i", "v", "e", "r", "y", "\"", ":", "1", "9", "0", "}", ",", "\"", "m", "a", "r", "k", "e", "t", "C", "o", "m", "p", "a", "r", "i", "s", "o", "n", "\"", ":", "{", "\"", "l", "o", "c", "a", "l", "M", "a", "r", "k", "e", "t", "\"", ":", "\"", "a", "\"", "}", ",", "\"", "b", "u", "l", "k", "D", "i", "s", "c", "o", "u", "n", "t", "s", "\"", ":", "{", "\"", "q", "u", "a", "n", "t", "i", "t", "y", "5", "\"", ":", "5", ",", "\"", "q", "u", "a", "n", "t", "i", "t", "y", "1", "0", "\"", ":", "1", "0", ",", "\"", "q", "u", "a", "n", "t", "i", "t", "y", "2", "5", "\"", ":", "2", "0", "}", ",", "\"", "c", "o", "n", "f", "i", "d", "e", "n", "c", "e", "\"", ":", "8", "8", ",", "\"", "n", "o", "t", "e", "s", "\"", ":", "\"", "F", "a", "i", "r", " ", "p", "r", "i", "c", "e", "\"", "}">>

Q_Fenced == <<Backtick, Backtick, Backtick, "j", "s", "o", "n", "\n", "{", "\"", "b", "a", "s", "e", "P", "r", "i", "c", "e", "\"", ":", "9", "0", "0", ",", "\"", "c", "o", "n", "f", "i", "d", "e", "n", "c", "e", "\"", ":", "9", "0", "}", "\n", Backtick, Backtick, Backtick>>

Q_Prose == <<"H", "e", "r", "e", " ", "i", "s", " ", "t", "h", "e", " ", "q", "u", "o", "t", "e", ":", " ", "{", "\"", "b", "a", "s", "e", "P", "r", "i", "c", "e", "\"", ":", "9", "9", "9", "9", "9", ",", "\"", "c", "o", "n", "f", "i", "d", "e", "n", "c", "e", "\"", ":", "2", "0", "}", " ", "T", "h", "a", "n", "k", "s">>

Q_ZeroDiscount == <<"{", "\"", "b", "a", "s", "e", "P", "r", "i", "c", "e", "\"", ":", "8", "0", "0", ",", "\"", "p", "r", "i", "c", "e", "R", "a", "n", "g", "e", "\"", ":", "{", "\"", "m", "i", "n", "\"", ":", "7", "0", "0", ",", "\"", "m", "a", "x", "\"", ":", "9", "0", "0", "}", ",", "\"", "b", "u", "l", "k", "D", "i", "s", "c", "o", "u", "n", "t", "s", "\"", ":", "{", "\"", "q", "u", "a", "n", "t", "i", "t", "y", "5", "\"", ":", "0", ",", "\"", "q", "u", "a", "n", "t", "i", "t", "y", "1", "0", "\"", ":", "1", "0", ",", "\"", "q", "u", "a", "n", "t", "i", "t", "y", "2", "5", "\"", ":", "6", "0", "}", ",", "\"", "c", "o", "n", "f", "i", "d", "e", "n", "c", "e", "\"", ":", "1", "0", "0", "}">>

Q_Forged == <<"{", "\"", "b", "a", "s", "e", "P", "r", "i", "c", "e", "\"", ":", "8", "0", "0", ",", "\"", "f", "a", "l", "l", "b", "a", "c", "k", "\"", ":", "t", "r", "u", "e", ",", "\"", "n", "o", "t", "e", "s", "\"", ":", "\"", "x", "\"", "}">>

Q_Inverted == <<"{", "\"", "b", "a", "s", "e", "P", "r", "i", "c", "e", "\"", ":", "1", "0", "0", ",", "\"", "p", "r", "i", "c", "e", "R", "a", "n", "g", "e", "\"", ":", "{", "\"", "m", "i", "n", "\"", ":", "6", "0", "0", "0", "0", ",", "\"", "m", "a", "x", "\"", ":", "1", "0", "0", "}", "}">>

Q_Strings == <<"{", "\"", "b", "a", "s", "e", "P", "r", "i", "c", "e", "\"", ":", "\"", "1", "2", "0", "0", "\"", ",", "\"", "c", "o", "n", "f", "i", "d", "e", "n", "c", "e", "\"", ":", "\"", "a", "b", "c", "\"", ",", "\"", "p", "r", "i", "c", "e", "R", "a", "n", "g", "e", "\"", ":", "{", "\"", "m", "i", "n", "\"", ":", "\"", "1", "0", "\"", ",", "\"", "m", "a", "x", "\"", ":", "n", "u", "l", "l", "}", "}">>

Q_Negative == <<"{", "\"", "b", "a", "s", "e", "P", "r", "i", "c", "e", "\"", ":", "-", "5", ",", "\"", "b", "r", "e", "a", "k", "d", "o", "w", "n", "\"", ":", "{", "\"", "m", "a", "t", "e", "r", "i", "a", "l", "s", "\"", ":", "-", "1", "0", ",", "\"", "l", "a", "b", "o", "r", "\"", ":", "2", "0", "0", "}", ",", "\"", "c", "u", "s", "t", "o", "m", "i", "z", "a", "t", "i", "o", "n", "P", "r", "i", "c", "i", "n", "g", "\"", ":", "{", "\"", "c", "o", "l", "o", "r", "V", "a", "r", "i", "a", "t", "i", "o", "n", "\"", ":", "-", "2", "0", "}", "}">>

Q_Fraction == <<"{", "\"", "b", "a", "s", "e", "P", "r", "i", "c", "e", "\"", ":", "4", "9", "9", ".", "5", ",", "\"", "p", "r", "i", "c", "e", "R", "a", "n", "g", "e", "\"", ":", "{", "\"", "m", "i", "n", "\"", ":", "4", "0", "0", ".", "5", ",", "\"", "m", "a", "x", "\"", ":", "3", "0", "0", "}", "}">>

Q_ZeroPrice == <<"{", "\"", "b", "a", "s", "e", "P", "r", "i", "c", "e", "\"", ":", "0", ",", "\"", "c", "o", "n", "f", "i", "d", "e", "n", "c", "e", "\"", ":", "0", ",", "\"", "b", "u", "l", "k", "D", "i", "s", "c", "o", "u", "n", "t", "s", "\"", ":", "{", "\"", "q", "u", "a", "n", "t", "i", "t", "y", "5", "\"", ":", "-", "3", ",", "\"", "q", "u", "a", "n", "t", "i", "t", "y", "1", "0", "\"", ":", "0", ".", "5", "}", "}">>

Q_Infinite == <<"{", "\"", "b", "a", "s", "e", "P", "r", "i", "c", "e", "\"", ":", "\"", "I", "n", "f", "i", "n", "i", "t", "y", "\"", ",", "\"", "p", "r", "i", "c", "e", "R", "a", "n", "g", "e", "\"", ":", "{", "\"", "m", "i", "n", "\"", ":", "\"", "I", "n", "f", "i", "n", "i", "t", "y", "\"", ",", "\"", "m", "a", "x", "\"", ":", "\"", "-", "I", "n", "f", "i", "n", "i", "t", "y", "\"", "}", "}">>

Q_Empty == <<"{", "}">>

Q_Truncated == <<"{", "\"", "b", "a", "s", "e", "P", "r", "i", "c", "e", "\"", ":", "7", "5", "0", ",">>

Q_BareKeys == <<"{", "b", "a", "s", "e", "P", "r", "i", "c", "e", ":", " ", "7", "5", "0", "}">>

Q_NoJson == <<"I", " ", "c", "a", "n", "n", "o", "t", " ", "p", "r", "i", "c", "e", " ", "t", "h", "i", "s", ".">>

QuotationTexts ==
  {Q_Full, Q_Fenced, Q_Prose, Q_ZeroDiscount, Q_Forged, Q_Inverted, Q_Strings, Q_Negative, Q_Fraction, Q_ZeroPrice, Q_Infinite, Q_Empty, Q_Truncated, Q_BareKeys, Q_NoJson}

S_Vase == <<"V", "a", "s", "e">>

S_PotteryUpper == <<"P", "o", "t", "t", "e", "r", "y">>

S_jewelry == <<"j", "e", "w", "e", "l", "r", "y">>

S_Intricate == <<"I", "n", "t", "r", "i", "c", "a", "t", "e">>

S_metro == <<"m", "e", "t", "r", "o">>
\* the request bodies tried: productName absent or given, productType absent,
\* a known type, or a number (which has no toLowerCase)
QuotationBodies ==
  [productName : {Undef, Str(S_Vase)},
   productType : {Undef, Str(S_PotteryUpper), Str(S_jewelry), Num(7)},
   complexity : {Undef, Str(S_Intricate)},
   region : {Undef, Str(S_metro)}]

\* what pricingModel.generateContent may answer: it rejects, it resolves with
\* no text, or it resolves with a text
QuotationOutcomes ==
  {[kind |-> "rejects", message |-> M_DeadlineExceeded, text |-> <<>>],
   [kind |-> "noText", message |-> <<>>, text |-> <<>>]}
    \cup {[kind |-> "text", message |-> <<>>, text |-> t] : t \in QuotationTexts}

\* the body of a response of generateQuotation; generatedAt, the reading of
\* the clock, is left out
QuotationResponse(status, success, message, detail, productName, quotation, generatedBy) ==
  [status |-> status, success |-> success, error |-> message, message |-> detail,
   productName |-> productName, quotation |-> quotation, generatedBy |-> generatedBy]

\* line 59: let quotation = null, and the locals of the try block
QuotationLocals ==
  [quotation |-> Null, responseText |-> <<>>, cleanedResponse |-> <<>>, jsonStr |-> <<>>]

InitQuotation ==
  /\ rawText = <<>>
  /\ pc = "quotation"
  /\ parsed = Undef
  /\ Fresh
  /\ clients \in [pricingModel : BOOLEAN]
  /\ req \in QuotationBodies
  /\ local = QuotationLocals
  /\ calls = <<>>
  /\ responses = <<>>
  /\ suspended = <<>>

\* lines 35-61: the request without a product name is refused
ReceiveQuotation ==
  /\ pc = "quotation"
  /\ IF ~Truthy(req.productName)
       THEN Send(QuotationResponse(400, FALSE, Str(M_ProductNameRequired), Str(M_ProvideProductName),
                                   Undef, Undef, Undef))
       ELSE /\ pc' = IF clients.pricingModel THEN "pricing" ELSE "template"
            /\ UNCHANGED responses
  /\ UNCHANGED <<suspended, clients, req, local, calls, parserVars>>

\* lines 122-128 and 140-142: the call of the pricing model and the text of
\* its answer, trimmed; a rejected call is logged and leaves quotation null
GeneratePricing ==
  /\ pc = "pricing"
  /\ \E o \in QuotationOutcomes :
       /\ calls' = Append(calls, Call("generateContent", "", <<>>))
       /\ IF o.kind = "text" /\ o.text # <<>>
            THEN /\ local' = [local EXCEPT !.responseText = Trim(o.text)]
                 /\ pc' = "cleanPricing"
            ELSE /\ pc' = "template"
                 /\ UNCHANGED local
  /\ UNCHANGED <<suspended, clients, req, responses, parserVars>>

\* lines 131-136: the fence marks are removed and the braces located
CleanPricing ==
  /\ pc = "cleanPricing"
  /\ LET cleaned == CleanedResponse(local.responseText) IN
       IF HasJsonSlice(cleaned)
         THEN /\ local' = [local EXCEPT !.cleanedResponse = cleaned, !.jsonStr = JsonSlice(cleaned)]
              /\ pc' = "parsePricing"
         ELSE /\ local' = [local EXCEPT !.cleanedResponse = cleaned]
              /\ pc' = "template"
  /\ UNCHANGED <<suspended, clients, req, calls, responses, parserVars>>

\* faulty variant: the model is asked again when its answer does not parse
ParsePricingRetries ==
  /\ pc = "parsePricing"
  /\ IF JSONParse(local.jsonStr).ok
       THEN /\ local' = [local EXCEPT !.quotation = JSONParse(local.jsonStr).v]
            /\ pc' = "validate"
       ELSE /\ pc' = "pricing"
            /\ UNCHANGED local
  /\ UNCHANGED <<suspended, clients, req, calls, responses, parserVars>>

\* lines 137 and 140-142: JSON.parse; what it throws is logged and leaves
\* quotation null
ParsePricing ==
  /\ pc = "parsePricing"
  /\ IF JSONParse(local.jsonStr).ok
       THEN /\ local' = [local EXCEPT !.quotation = JSONParse(local.jsonStr).v]
            /\ pc' = "validate"
       ELSE /\ pc' = "template"
            /\ UNCHANGED local
  /\ UNCHANGED <<suspended, clients, req, calls, responses, parserVars>>

\* lines 147-156: quotation is null, and the template makes one; the
\* TypeError it throws is answered by the catch of lines 171-178
TemplateQuotation ==
  /\ pc = "template"
  /\ calls' = Append(calls, Call("generateFallbackQuotation", "", <<>>))
  /\ IF TemplateThrows(req)
       THEN /\ Send(QuotationResponse(500, FALSE, Str(M_QuotationFailed), Str(M_NotAFunction),
                                      Undef, Undef, Undef))
            /\ UNCHANGED local
       ELSE /\ local' = [local EXCEPT !.quotation = generateFallbackQuotation(req)]
            /\ pc' = "validate"
            /\ UNCHANGED responses
  /\ UNCHANGED <<suspended, clients, req, parserVars>>

\* lines 159-169: validateQuotation and the answer
ValidateQuotation ==
  /\ pc = "validate"
  /\ calls' = Append(calls, Call("validateQuotation", "", <<>>))
  /\ Send(QuotationResponse(200, TRUE, Undef, Undef, req.productName,
                            validateQuotation(local.quotation),
                            Str(IF clients.pricingModel THEN S_vertexAI ELSE S_template)))
  /\ UNCHANGED <<suspended, clients, req, local, parserVars>>

NextQuotation ==
  \/ ReceiveQuotation
  \/ GeneratePricing
  \/ CleanPricing
  \/ ParsePricing
  \/ TemplateQuotation
  \/ ValidateQuotation

SpecQuotation == InitQuotation /\ [][NextQuotation]_vars
\* ------------------------------------------------------------ enhanceImageWithGemini

K_currentQuality == <<"c", "u", "r", "r", "e", "n", "t", "Q", "u", "a", "l", "i", "t", "y">>

K_lighting == <<"l", "i", "g", "h", "t", "i", "n", "g">>

K_background == <<"b", "a", "c", "k", "g", "r", "o", "u", "n", "d">>

K_composition == <<"c", "o", "m", "p", "o", "s", "i", "t", "i", "o", "n">>

K_focus == <<"f", "o", "c", "u", "s">>

K_enhancementActions == <<"e", "n", "h", "a", "n", "c", "e", "m", "e", "n", "t", "A", "c", "t", "i", "o", "n", "s">>

K_technicalImprovements == <<"t", "e", "c", "h", "n", "i", "c", "a", "l", "I", "m", "p", "r", "o", "v", "e", "m", "e", "n", "t", "s">>

K_backgroundRemoval == <<"b", "a", "c", "k", "g", "r", "o", "u", "n", "d", "R", "e", "m", "o", "v", "a", "l">>

K_lightingAdjustment == <<"l", "i", "g", "h", "t", "i", "n", "g", "A", "d", "j", "u", "s", "t", "m", "e", "n", "t">>

K_colorCorrection == <<"c", "o", "l", "o", "r", "C", "o", "r", "r", "e", "c", "t", "i", "o", "n">>

K_sharpening == <<"s", "h", "a", "r", "p", "e", "n", "i", "n", "g">>

K_marketplaceOptimization == <<"m", "a", "r", "k", "e", "t", "p", "l", "a", "c", "e", "O", "p", "t", "i", "m", "i", "z", "a", "t", "i", "o", "n">>

K_suggestedAngles == <<"s", "u", "g", "g", "e", "s", "t", "e", "d", "A", "n", "g", "l", "e", "s">>

K_additionalPhotos == <<"a", "d", "d", "i", "t", "i", "o", "n", "a", "l", "P", "h", "o", "t", "o", "s">>

K_qualityScore == <<"q", "u", "a", "l", "i", "t", "y", "S", "c", "o", "r", "e">>

K_readyForMarketplace == <<"r", "e", "a", "d", "y", "F", "o", "r", "M", "a", "r", "k", "e", "t", "p", "l", "a", "c", "e">>

K_enhanced == <<"e", "n", "h", "a", "n", "c", "e", "d">>

K_recommendations == <<"r", "e", "c", "o", "m", "m", "e", "n", "d", "a", "t", "i", "o", "n", "s">>

M_GeminiNotAvailable == <<"G", "e", "m", "i", "n", "i", " ", "2", ".", "5", " ", "F", "l", "a", "s", "h", " ", "n", "o", "t", " ", "a", "v", "a", "i", "l", "a", "b", "l", "e">>

M_NoValidResponse == <<"N", "o", " ", "v", "a", "l", "i", "d", " ", "r", "e", "s", "p", "o", "n", "s", "e", " ", "f", "r", "o", "m", " ", "G", "e", "m", "i", "n", "i">>

M_NoValidJSONFound == <<"N", "o", " ", "v", "a", "l", "i", "d", " ", "J", "S", "O", "N", " ", "f", "o", "u", "n", "d", " ", "i", "n", " ", "r", "e", "s", "p", "o", "n", "s", "e">>

S_pottery == <<"p", "o", "t", "t", "e", "r", "y">>

S_textile == <<"t", "e", "x", "t", "i", "l", "e">>

S_woodwork == <<"w", "o", "o", "d", "w", "o", "r", "k">>

S_metalwork == <<"m", "e", "t", "a", "l", "w", "o", "r", "k">>

S_craft == <<"c", "r", "a", "f", "t">>

\* lines 474-484: labelTexts holds the lower-cased description of every label
\* ('' for a label without one); the first list with a label in it names the type
detectProductType(labelTexts) ==
  LET some(words) == \E i \in 1..Len(labelTexts) : labelTexts[i] \in words IN
  IF some({<<"p", "o", "t", "t", "e", "r", "y">>, <<"c", "e", "r", "a", "m", "i", "c">>, <<"c", "l", "a", "y">>, <<"b", "o", "w", "l">>, <<"v", "a", "s", "e">>, <<"p", "o", "t">>}) THEN S_pottery
  ELSE IF some({<<"t", "e", "x", "t", "i", "l", "e">>, <<"f", "a", "b", "r", "i", "c">>, <<"c", "l", "o", "t", "h">>, <<"s", "a", "r", "e", "e">>, <<"s", "i", "l", "k">>, <<"c", "o", "t", "t", "o", "n">>}) THEN S_textile
  ELSE IF some({<<"j", "e", "w", "e", "l", "r", "y">>, <<"n", "e", "c", "k", "l", "a", "c", "e">>, <<"b", "r", "a", "c", "e", "l", "e", "t">>, <<"e", "a", "r", "r", "i", "n", "g">>, <<"r", "i", "n", "g">>}) THEN S_jewelry
  ELSE IF some({<<"w", "o", "o", "d">>, <<"w", "o", "o", "d", "e", "n">>, <<"f", "u", "r", "n", "i", "t", "u", "r", "e">>, <<"c", "a", "r", "v", "i", "n", "g">>}) THEN S_woodwork
  ELSE IF some({<<"m", "e", "t", "a", "l">>, <<"b", "r", "a", "s", "s">>, <<"c", "o", "p", "p", "e", "r">>, <<"s", "i", "l", "v", "e", "r">>, <<"b", "r", "o", "n", "z", "e">>}) THEN S_metalwork
  ELSE S_craft

\* l.description?.toLowerCase() || '' for every label
LabelTexts(labels) == [i \in 1..Len(labels) |-> ToLowerCase(labels[i])]

\* line 464: visionAnalysis?.quality || 75
FallbackQualityScore(visionAnalysis) == IF visionAnalysis.quality = 0 THEN 75 ELSE visionAnalysis.quality

\* lines 438-469; its argument holds no reason
createFallbackEnhancement(visionAnalysis) ==
  Obj(<<Field(K_productType, Str(detectProductType(LabelTexts(visionAnalysis.labels)))),
        Field(K_currentQuality, Obj(<<Field(K_lighting, Str(<<"f", "a", "i", "r">>)),
                                       Field(K_background, Str(<<"p", "l", "a", "i", "n">>)),
                                       Field(K_composition, Str(<<"g", "o", "o", "d">>)),
                                       Field(K_focus, Str(<<"s", "h", "a", "r", "p">>))>>)),
        Field(K_enhancementActions,
               Arr(<<Str(<<"O", "p", "t", "i", "m", "i", "z", "e", " ", "l", "i", "g", "h", "t", "i", "n", "g", " ", "f", "o", "r", " ", "b", "e", "t", "t", "e", "r", " ", "p", "r", "o", "d", "u", "c", "t", " ", "v", "i", "s", "i", "b", "i", "l", "i", "t", "y">>),
                     Str(<<"E", "n", "s", "u", "r", "e", " ", "c", "l", "e", "a", "n", ",", " ", "p", "r", "o", "f", "e", "s", "s", "i", "o", "n", "a", "l", " ", "b", "a", "c", "k", "g", "r", "o", "u", "n", "d">>),
                     Str(<<"C", "e", "n", "t", "e", "r", " ", "p", "r", "o", "d", "u", "c", "t", " ", "i", "n", " ", "f", "r", "a", "m", "e", " ", "f", "o", "r", " ", "m", "a", "x", "i", "m", "u", "m", " ", "i", "m", "p", "a", "c", "t">>)>>)),
        Field(K_technicalImprovements, Obj(<<Field(K_backgroundRemoval, Bool(TRUE)),
                                              Field(K_lightingAdjustment, Str(<<"m", "o", "d", "e", "r", "a", "t", "e">>)),
                                              Field(K_colorCorrection, Bool(TRUE)),
                                              Field(K_sharpening, Bool(FALSE))>>)),
        Field(K_marketplaceOptimization,
               Obj(<<Field(K_suggestedAngles, Arr(<<Str(<<"f", "r", "o", "n", "t", " ", "v", "i", "e", "w">>), Str(<<"d", "e", "t", "a", "i", "l", " ", "s", "h", "o", "t">>), Str(<<"u", "s", "a", "g", "e", " ", "c", "o", "n", "t", "e", "x", "t">>)>>)),
                     Field(K_additionalPhotos, Str(<<"R", "e", "c", "o", "m", "m", "e", "n", "d", " ", "3", "-", "4", " ", "p", "h", "o", "t", "o", "s", " ", "s", "h", "o", "w", "i", "n", "g", " ", "d", "i", "f", "f", "e", "r", "e", "n", "t", " ", "a", "n", "g", "l", "e", "s", " ", "a", "n", "d", " ", "d", "e", "t", "a", "i", "l", "s">>))>>)),
        Field(K_qualityScore, Num(FallbackQualityScore(visionAnalysis))),
        Field(K_readyForMarketplace, Bool(FallbackQualityScore(visionAnalysis) >= 70)),
        Field(K_enhanced, Bool(FALSE)),
        Field(K_fallback, Bool(TRUE))>>)

\* lines 319-327: the record returned without a model
UnavailableEnhancement ==
  Obj(<<Field(K_enhanced, Bool(FALSE)),
        Field(K_recommendations,
               Arr(<<Str(<<"U", "s", "e", " ", "b", "r", "i", "g", "h", "t", ",", " ", "n", "a", "t", "u", "r", "a", "l", " ", "l", "i", "g", "h", "t", "i", "n", "g">>),
                     Str(<<"R", "e", "m", "o", "v", "e", " ", "c", "l", "u", "t", "t", "e", "r", "e", "d", " ", "b", "a", "c", "k", "g", "r", "o", "u", "n", "d">>),
                     Str(<<"C", "e", "n", "t", "e", "r", " ", "t", "h", "e", " ", "p", "r", "o", "d", "u", "c", "t", " ", "i", "n", " ", "f", "r", "a", "m", "e">>),
                     Str(<<"T", "a", "k", "e", " ", "m", "u", "l", "t", "i", "p", "l", "e", " ", "a", "n", "g", "l", "e", "s">>)>>))>>)

\* the texts the image model answers with in the model
E_Full == <<"{", "\"", "p", "r", "o", "d", "u", "c", "t", "T", "y", "p", "e", "\"", ":", "\"", "p", "o", "t", "t", "e", "r", "y", "\"", ",", "\"", "c", "u", "r", "r", "e", "n", "t", "Q", "u", "a", "l", "i", "t", "y", "\"", ":", "{", "\"", "l", "i", "g", "h", "t", "i", "n", "g", "\"", ":", "\"", "g", "o", "o", "d", "\"", "}", ",", "\"", "e", "n", "h", "a", "n", "c", "e", "m", "e", "n", "t", "A", "c", "t", "i", "o", "n", "s", "\"", ":", "[", "\"", "C", "r", "o", "p", " ", "t", "i", "g", "h", "t", "e", "r", "\"", "]", ",", "\"", "q", "u", "a", "l", "i", "t", "y", "S", "c", "o", "r", "e", "\"", ":", "8", "5", ",", "\"", "r", "e", "a", "d", "y", "F", "o", "r", "M", "a", "r", "k", "e", "t", "p", "l", "a", "c", "e", "\"", ":", "t", "r", "u", "e", "}">>

E_Fenced == <<Backtick, Backtick, Backtick, "j", "s", "o", "n", "\n", "{", "\"", "p", "r", "o", "d", "u", "c", "t", "T", "y", "p", "e", "\"", ":", "\"", "t", "e", "x", "t", "i", "l", "e", "\"", ",", "\"", "q", "u", "a", "l", "i", "t", "y", "S", "c", "o", "r", "e", "\"", ":", "6", "0", "}", "\n", Backtick, Backtick, Backtick>>

E_Prose == <<"S", "u", "r", "e", "!", " ", "{", "\"", "p", "r", "o", "d", "u", "c", "t", "T", "y", "p", "e", "\"", ":", "\"", "j", "e", "w", "e", "l", "r", "y", "\"", "}", " ", "H", "o", "p", "e", " ", "t", "h", "i", "s", " ", "h", "e", "l", "p", "s", ".">>

E_OddTypes == <<"{", "\"", "q", "u", "a", "l", "i", "t", "y", "S", "c", "o", "r", "e", "\"", ":", "\"", "h", "i", "g", "h", "\"", ",", "\"", "e", "n", "h", "a", "n", "c", "e", "m", "e", "n", "t", "A", "c", "t", "i", "o", "n", "s", "\"", ":", "\"", "n", "o", "n", "e", "\"", ",", "\"", "r", "e", "a", "d", "y", "F", "o", "r", "M", "a", "r", "k", "e", "t", "p", "l", "a", "c", "e", "\"", ":", "\"", "y", "e", "s", "\"", "}">>

E_Forged == <<"{", "\"", "f", "a", "l", "l", "b", "a", "c", "k", "\"", ":", "t", "r", "u", "e", ",", "\"", "e", "n", "h", "a", "n", "c", "e", "d", "\"", ":", "t", "r", "u", "e", "}">>

E_Empty == <<"{", "}">>

E_Nested == <<"{", "\"", "a", "\"", ":", "{", "\"", "b", "\"", ":", "[", "1", ",", "2", ",", "{", "\"", "c", "\"", ":", "n", "u", "l", "l", "}", "]", "}", "}">>

E_Truncated == <<"{", "\"", "p", "r", "o", "d", "u", "c", "t", "T", "y", "p", "e", "\"", ":", "\"", "p", "o", "t", "t", "e", "r", "y", "\"", ",">>

E_BareKeys == <<"{", "p", "r", "o", "d", "u", "c", "t", "T", "y", "p", "e", ":", " ", "\"", "p", "o", "t", "t", "e", "r", "y", "\"", "}">>

E_NoJson == <<"T", "h", "e", " ", "i", "m", "a", "g", "e", " ", "s", "h", "o", "w", "s", " ", "a", " ", "v", "a", "s", "e", ".">>

E_Reversed == <<"}", " ", "n", "o", "t", "h", "i", "n", "g", " ", "{">>

EnhancementTexts ==
  {E_Full, E_Fenced, E_Prose, E_OddTypes, E_Forged, E_Empty, E_Nested, E_Truncated, E_BareKeys, E_NoJson, E_Reversed}

\* the vision analyses tried: the descriptions of the labels ('' for a label
\* without one) and the quality score
VisionAnalyses ==
  {[labels |-> <<<<>>, <<>>, <<>>>>, quality |-> 75],
   [labels |-> <<<<"H", "a", "n", "d", "m", "a", "d", "e">>, <<"V", "a", "s", "e">>>>, quality |-> 95],
   [labels |-> <<<<"S", "i", "l", "k">>>>, quality |-> 50],
   [labels |-> <<<<"p", "r", "o", "d", "u", "c", "t">>>>, quality |-> 70],
   [labels |-> <<>>, quality |-> 0]}
\* what imageGenerationModel.generateContent may answer
EnhancementOutcomes ==
  {[kind |-> "rejects", message |-> M_DeadlineExceeded, text |-> <<>>],
   [kind |-> "noText", message |-> <<>>, text |-> <<>>]}
    \cup {[kind |-> "text", message |-> <<>>, text |-> t] : t \in EnhancementTexts}

\* what enhanceImageWithGemini returns
EnhancementResult(success, message, data, fallback) ==
  [success |-> success, error |-> message, data |-> data, fallback |-> fallback]

\* return ...
ReturnResult(r) ==
  /\ responses' = Append(responses, r)
  /\ pc' = "responded"

EnhancementLocals ==
  [enhancement |-> Null, responseText |-> <<>>, cleanedResponse |-> <<>>, jsonStr |-> <<>>]

InitEnhancement ==
  /\ rawText = <<>>
  /\ pc = "enhancement"
  /\ parsed = Undef
  /\ Fresh
  /\ clients \in [imageGenerationModel : BOOLEAN]
  /\ req \in [visionAnalysis : VisionAnalyses]
  /\ local = EnhancementLocals
  /\ calls = <<>>
  /\ responses = <<>>
  /\ suspended = <<>>

\* lines 315-329: without a model a fixed record is returned
StartEnhancement ==
  /\ pc = "enhancement"
  /\ IF ~clients.imageGenerationModel
       THEN ReturnResult(EnhancementResult(FALSE, Str(M_GeminiNotAvailable), Undef, UnavailableEnhancement))
       ELSE /\ pc' = "generateEnhancement"
            /\ UNCHANGED responses
  /\ UNCHANGED <<suspended, clients, req, local, calls, parserVars>>

\* lines 425-432: the outer catch
EnhancementFailed(made, message) ==
  /\ calls' = calls \o made \o <<Call("createFallbackEnhancement", "", <<>>)>>
  /\ ReturnResult(EnhancementResult(FALSE, Str(message), Undef,
                                    createFallbackEnhancement(req.visionAnalysis)))

\* lines 394-401: the call of the model and the text of its answer
GenerateEnhancement ==
  /\ pc = "generateEnhancement"
  /\ \E o \in EnhancementOutcomes :
       LET made == <<Call("generateContent", "", <<>>)>> IN
       CASE o.kind = "rejects" ->
              /\ EnhancementFailed(made, o.message)
              /\ UNCHANGED local
         [] o.kind = "noText" \/ (o.kind = "text" /\ o.text = <<>>) ->
              /\ EnhancementFailed(made, M_NoValidResponse)
              /\ UNCHANGED local
         [] OTHER ->
              /\ calls' = calls \o made
              /\ local' = [local EXCEPT !.responseText = o.text]
              /\ pc' = "cleanEnhancement"
              /\ UNCHANGED responses
  /\ UNCHANGED <<suspended, clients, req, parserVars>>

\* lines 417-423: the inner catch makes the fallback, which is returned as data
EnhancementUnparsed ==
  /\ calls' = Append(calls, Call("createFallbackEnhancement", "", <<>>))
  /\ ReturnResult(EnhancementResult(TRUE, Undef, createFallbackEnhancement(req.visionAnalysis), Undef))

\* lines 407-416: the fence marks are removed and the braces located
CleanEnhancement ==
  /\ pc = "cleanEnhancement"
  /\ LET cleaned == CleanedResponse(local.responseText) IN
       IF HasJsonSlice(cleaned)
         THEN /\ local' = [local EXCEPT !.cleanedResponse = cleaned, !.jsonStr = JsonSlice(cleaned)]
              /\ pc' = "parseEnhancement"
              /\ UNCHANGED <<calls, responses>>
         ELSE /\ local' = [local EXCEPT !.cleanedResponse = cleaned]
              /\ EnhancementUnparsed
  /\ UNCHANGED <<suspended, clients, req, parserVars>>

\* lines 413 and 417-423: JSON.parse, and the return of what it made
ParseEnhancement ==
  /\ pc = "parseEnhancement"
  /\ IF JSONParse(local.jsonStr).ok
       THEN /\ local' = [local EXCEPT !.enhancement = JSONParse(local.jsonStr).v]
            /\ ReturnResult(EnhancementResult(TRUE, Undef, JSONParse(local.jsonStr).v, Undef))
            /\ UNCHANGED calls
       ELSE /\ EnhancementUnparsed
            /\ UNCHANGED local
  /\ UNCHANGED <<suspended, clients, req, parserVars>>

NextEnhancement ==
  \/ StartEnhancement
  \/ GenerateEnhancement
  \/ CleanEnhancement
  \/ ParseEnhancement

SpecEnhancement == InitEnhancement /\ [][NextEnhancement]_vars

\* ------------------------------------------------------------ the three pipelines

InitPipelines == InitAudio \/ InitQuotation \/ InitEnhancement

NextPipelines == NextAudio \/ NextQuotation \/ NextEnhancement

SpecPipelines == InitPipelines /\ [][NextPipelines]_vars

\* ------------------------------------------------------------ sendWhatsAppMessage

M_PhoneRequired == <<"P", "h", "o", "n", "e", " ", "n", "u", "m", "b", "e", "r", " ", "r", "e", "q", "u", "i", "r", "e", "d">>

M_ProvidePhone == <<"P", "l", "e", "a", "s", "e", " ", "p", "r", "o", "v", "i", "d", "e", " ", "a", " ", "v", "a", "l", "i", "d", " ", "p", "h", "o", "n", "e", " ", "n", "u", "m", "b", "e", "r", " ", "t", "o", " ", "s", "e", "n", "d", " ", "W", "h", "a", "t", "s", "A", "p", "p", " ", "m", "e", "s", "s", "a", "g", "e">>

M_WhatsAppFailed == <<"W", "h", "a", "t", "s", "A", "p", "p", " ", "B", "u", "s", "i", "n", "e", "s", "s", " ", "A", "P", "I", " ", "f", "a", "i", "l", "e", "d">>

M_ReplaceNotAFunction == <<"p", "h", "o", "n", "e", "N", "u", "m", "b", "e", "r", ".", "r", "e", "p", "l", "a", "c", "e", " ", "i", "s", " ", "n", "o", "t", " ", "a", " ", "f", "u", "n", "c", "t", "i", "o", "n">>

M_Timeout == <<"t", "i", "m", "e", "o", "u", "t", " ", "o", "f", " ", "1", "0", "0", "0", "0", "m", "s", " ", "e", "x", "c", "e", "e", "d", "e", "d">>

M_InvalidToken == <<"I", "n", "v", "a", "l", "i", "d", " ", "O", "A", "u", "t", "h", " ", "a", "c", "c", "e", "s", "s", " ", "t", "o", "k", "e", "n">>

M_ReadingZero == <<"C", "a", "n", "n", "o", "t", " ", "r", "e", "a", "d", " ", "p", "r", "o", "p", "e", "r", "t", "i", "e", "s", " ", "o", "f", " ", "u", "n", "d", "e", "f", "i", "n", "e", "d", " ", "(", "r", "e", "a", "d", "i", "n", "g", " ", "'", "0", "'", ")">>

S_demo == <<"d", "e", "m", "o">>

S_production == <<"p", "r", "o", "d", "u", "c", "t", "i", "o", "n">>

S_fallbackMode == <<"f", "a", "l", "l", "b", "a", "c", "k">>

S_sent == <<"s", "e", "n", "t">>

S_WaMe == <<"h", "t", "t", "p", "s", ":", "/", "/", "w", "a", ".", "m", "e", "/">>

S_TextParam == <<"?", "t", "e", "x", "t", "=">>

S_MessageId == <<"w", "a", "m", "i", "d", ".", "A", "1">>

S_Phone == <<"+", "9", "1", " ", "9", "8", "7", "6", "5", "-", "4", "3", "2", "1", "0">>

\* lines 564-585: the template message of a request without business or
\* product data; a character outside ASCII is written U+ and its code point
W_Template == <<"U+1F64F", " ", "N", "a", "m", "a", "s", "t", "e", "!", " ", "W", "e", "l", "c", "o", "m", "e", " ", "t", "o", " ", "o", "u", "r", " ", "c", "r", "a", "f", "t", " ", "b", "u", "s", "i", "n", "e", "s", "s", "!", "\n", "\n", "U+1F3A8", " ", "W", "e", " ", "s", "p", "e", "c", "i", "a", "l", "i", "z", "e", " ", "i", "n", " ", "a", "u", "t", "h", "e", "n", "t", "i", "c", " ", "h", "a", "n", "d", "m", "a", "d", "e", " ", "p", "r", "o", "d", "u", "c", "t", "s", " ", "c", "r", "e", "a", "t", "e", "d", " ", "w", "i", "t", "h", " ", "t", "r", "a", "d", "i", "t", "i", "o", "n", "a", "l", " ", "t", "e", "c", "h", "n", "i", "q", "u", "e", "s", " ", "a", "n", "d", " ", "m", "o", "d", "e", "r", "n", " ", "q", "u", "a", "l", "i", "t", "y", ".", "\n", "\n", "U+2728", " ", "W", "h", "y", " ", "c", "h", "o", "o", "s", "e", " ", "u", "s", ":", "\n", "U+2022", " ", "G", "e", "n", "u", "i", "n", "e", " ", "h", "a", "n", "d", "m", "a", "d", "e", " ", "q", "u", "a", "l", "i", "t", "y", "\n", "U+2022", " ", "T", "r", "a", "d", "i", "t", "i", "o", "n", "a", "l", " ", "c", "r", "a", "f", "t", "s", "m", "a", "n", "s", "h", "i", "p", "\n", "U+2022", " ", "C", "u", "s", "t", "o", "m", " ", "o", "r", "d", "e", "r", "s", " ", "a", "v", "a", "i", "l", "a", "b", "l", "e", "\n", "U+2022", " ", "F", "a", "s", "t", " ", "&", " ", "r", "e", "l", "i", "a", "b", "l", "e", " ", "d", "e", "l", "i", "v", "e", "r", "y", "\n", "\n", "U+1F4DE", " ", "R", "e", "p", "l", "y", " ", "t", "o", " ", "t", "h", "i", "s", " ", "m", "e", "s", "s", "a", "g", "e", " ", "w", "i", "t", "h", " ", "y", "o", "u", "r", " ", "r", "e", "q", "u", "i", "r", "e", "m", "e", "n", "t", "s", " ", "a", "n", "d", " ", "w", "e", "'", "l", "l", " ", "s", "e", "n", "d", " ", "y", "o", "u", ":", "\n", "U+2022", " ", "P", "r", "o", "d", "u", "c", "t", " ", "p", "h", "o", "t", "o", "s", " ", "&", " ", "d", "e", "t", "a", "i", "l", "s", "\n", "U+2022", " ", "P", "r", "i", "c", "i", "n", "g", " ", "i", "n", "f", "o", "r", "m", "a", "t", "i", "o", "n", " ", " ", "\n", "U+2022", " ", "D", "e", "l", "i", "v", "e", "r", "y", " ", "t", "i", "m", "e", "l", "i", "n", "e", "\n", "U+2022", " ", "C", "u", "s", "t", "o", "m", " ", "o", "p", "t", "i", "o", "n", "s", " ", "a", "v", "a", "i", "l", "a", "b", "l", "e", "\n", "\n", "U+1F6D2", " ", "R", "e", "a", "d", "y", " ", "t", "o", " ", "o", "r", "d", "e", "r", " ", "o", "r", " ", "h", "a", "v", "e", " ", "q", "u", "e", "s", "t", "i", "o", "n", "s", "?", " ", "J", "u", "s", "t", " ", "r", "e", "p", "l", "y", " ", "-", " ", "w", "e", "'", "r", "e", " ", "h", "e", "r", "e", " ", "t", "o", " ", "h", "e", "l", "p", "!", "\n", "\n", "U+1F64F", " ", "T", "h", "a", "n", "k", " ", "y", "o", "u", " ", "f", "o", "r", " ", "s", "u", "p", "p", "o", "r", "t", "i", "n", "g", " ", "l", "o", "c", "a", "l", " ", "a", "r", "t", "i", "s", "a", "n", "s", "!">>

\* texts the message model answers with
W_Short == <<"N", "a", "m", "a", "s", "t", "e", "!", " ", "C", "l", "a", "y", " ", "p", "o", "t", "s", " ", "&", " ", "v", "a", "s", "e", "s", ",", " ", "5", "0", "%", " ", "o", "f", "f", ".">>

W_TwoLines == <<"H", "e", "l", "l", "o", ",", "\n", "h", "a", "n", "d", "m", "a", "d", "e", " ", "p", "o", "t", "s", ":", " ", "r", "e", "p", "l", "y", " ", "\"", "Y", "E", "S", "\"">>

\* encodeURIComponent of one character: a letter, a digit and - _ . ! ~ * ' ( )
\* stay, every other character becomes the %XX of each byte of its UTF-8 form
\* (given here for the characters that occur in the messages)
UriUnreserved == LowerLetters \cup UpperLetters \cup Digits \cup {"-", "_", ".", "!", "~", "*", "'", "(", ")"}

EncodeChar(c) ==
  CASE c \in UriUnreserved -> <<c>>
    [] c = "\n" -> <<"%", "0", "A">>
    [] c = " " -> <<"%", "2", "0">>
    [] c = "\"" -> <<"%", "2", "2">>
    [] c = "%" -> <<"%", "2", "5">>
    [] c = "&" -> <<"%", "2", "6">>
    [] c = "," -> <<"%", "2", "C">>
    [] c = ":" -> <<"%", "3", "A">>
    [] c = "?" -> <<"%", "3", "F">>
    [] c = "U+2022" -> <<"%", "E", "2", "%", "8", "0", "%", "A", "2">>
    [] c = "U+2728" -> <<"%", "E", "2", "%", "9", "C", "%", "A", "8">>
    [] c = "U+1F3A8" -> <<"%", "F", "0", "%", "9", "F", "%", "8", "E", "%", "A", "8">>
    [] c = "U+1F4DE" -> <<"%", "F", "0", "%", "9", "F", "%", "9", "3", "%", "9", "E">>
    [] c = "U+1F64F" -> <<"%", "F", "0", "%", "9", "F", "%", "9", "9", "%", "8", "F">>
    [] c = "U+1F6D2" -> <<"%", "F", "0", "%", "9", "F", "%", "9", "B", "%", "9", "2">>
    [] OTHER -> <<"%", "?", "?">>
\* encodeURIComponent(s), by halves
RECURSIVE EncodeRange(_, _, _)
EncodeRange(s, a, b) ==
  IF a > b THEN <<>>
  ELSE IF a = b THEN EncodeChar(s[a])
  ELSE EncodeRange(s, a, (a + b) \div 2) \o EncodeRange(s, (a + b) \div 2 + 1, b)

EncodeURIComponent(s) == EncodeRange(s, 1, Len(s))

\* phoneNumber.replace(/[^\d]/g, '')
IsDigit(c) == c \in Digits

DigitsOnly(s) == SelectSeq(s, IsDigit)

\* `https://wa.me/${cleanPhone}?text=${encodedMessage}`
WaLink(cleanPhone, message) == S_WaMe \o cleanPhone \o S_TextParam \o EncodeURIComponent(message)

\* line 707: the number of attempts
MaxAttempts == 3

\* line 741: Math.pow(2, attempt - 1) * 1000
RECURSIVE Pow2(_)
Pow2(n) == IF n <= 0 THEN 1 ELSE 2 * Pow2(n - 1)

BackoffMs(attempt) == Pow2(attempt - 1) * 1000

\* what generativeAI.generateContent may answer in generateWhatsAppMessage
MessageOutcomes ==
  {[kind |-> "rejects", text |-> <<>>], [kind |-> "noText", text |-> <<>>]}
    \cup {[kind |-> "text", text |-> t] : t \in {W_Short, W_TwoLines \o <<"\n">>}}

\* what axios.post may answer: the request fails without a response, the API
\* answers with an error body, the API accepts and names the message, or the
\* API accepts with a body that holds no messages
PostOutcomes ==
  {[kind |-> "rejects", apiError |-> Str(M_Timeout)],
   [kind |-> "refused", apiError |-> Obj(<<Field(K_reason, Str(M_InvalidToken))>>)],
   [kind |-> "malformed", apiError |-> Str(M_ReadingZero)],
   [kind |-> "resolves", apiError |-> Undef]}

\* the request bodies tried: phoneNumber absent, empty, a text, a number
SendBodies == [phoneNumber : {Undef, Str(<<>>), Str(S_Phone), Num(9876543)}]

\* the body of a response of sendWhatsAppMessage; sentAt, the reading of the
\* clock, and the fixed instruction texts are left out
SendResponse(status, success, mode, message, detail, waLink, phoneNumber, messageId, apiError) ==
  [status |-> status, success |-> success, mode |-> mode, error |-> message, message |-> detail,
   waLink |-> waLink, phoneNumber |-> phoneNumber, messageId |-> messageId, apiError |-> apiError]

SendLocals == [message |-> <<>>, formattedPhone |-> <<>>, attempt |-> 1, lastError |-> Null]

InitSend ==
  /\ rawText = <<>>
  /\ pc = "send"
  /\ parsed = Undef
  /\ Fresh
  /\ clients \in [generativeAI : BOOLEAN, hasWhatsAppConfig : BOOLEAN]
  /\ req \in SendBodies
  /\ local = SendLocals
  /\ calls = <<>>
  /\ responses = <<>>
  /\ suspended = <<>>

\* lines 636-645: the request without a phone number is refused
ReceiveSend ==
  /\ pc = "send"
  /\ IF ~Truthy(req.phoneNumber)
       THEN Send(SendResponse(400, FALSE, Undef, Str(M_PhoneRequired), Str(M_ProvidePhone),
                              Undef, Undef, Undef, Undef))
       ELSE /\ pc' = "compose"
            /\ UNCHANGED responses
  /\ UNCHANGED <<suspended, clients, req, local, calls, parserVars>>

\* lines 648-677 and 680-703: generateWhatsAppMessage (lines 522-585) gives the
\* trimmed text of the model or the template; a phoneNumber that is no string
\* has no replace, and the catch of lines 765-772 answers; without the
\* configuration the demo response is sent
Composed(made, message) ==
  /\ calls' = calls \o made
  /\ IF req.phoneNumber.t # "str"
       THEN /\ Send(SendResponse(500, FALSE, Undef, Str(M_InternalServerError),
                                 Str(M_ReplaceNotAFunction), Undef, Undef, Undef, Undef))
            /\ UNCHANGED local
     ELSE IF ~clients.hasWhatsAppConfig
       THEN /\ Send(SendResponse(200, TRUE, Str(S_demo), Undef, Str(message),
                                 Str(WaLink(DigitsOnly(req.phoneNumber.s), message)),
                                 Str(DigitsOnly(req.phoneNumber.s)), Undef, Undef))
            /\ UNCHANGED local
     ELSE /\ local' = [local EXCEPT !.message = message,
                                    !.formattedPhone = DigitsOnly(req.phoneNumber.s)]
          /\ pc' = "post"
          /\ UNCHANGED responses

ComposeMessage ==
  /\ pc = "compose"
  /\ IF clients.generativeAI
       THEN \E o \in MessageOutcomes :
              Composed(<<Call("generateContent", "", <<>>)>>,
                       IF o.kind = "text" THEN Trim(o.text) ELSE W_Template)
       ELSE Composed(<<>>, W_Template)
  /\ UNCHANGED <<suspended, clients, req, parserVars>>

\* faulty variant: the loop runs while attempt <= 4
PostMessageFourTimes ==
  /\ pc = "post"
  /\ \E o \in PostOutcomes :
       /\ calls' = Append(calls, Call("post", "", <<local.attempt>>))
       /\ IF o.kind = "resolves"
            THEN /\ Send(SendResponse(200, TRUE, Str(S_production), Undef, Str(local.message), Undef,
                                      Str(local.formattedPhone), Str(S_MessageId), Undef))
                 /\ UNCHANGED local
            ELSE /\ local' = [local EXCEPT !.lastError = o.apiError,
                                           !.attempt = IF @ < MaxAttempts + 1 THEN @ ELSE @ + 1]
                 /\ pc' = IF local.attempt < MaxAttempts + 1 THEN "backoff" ELSE "exhausted"
                 /\ UNCHANGED responses
  /\ UNCHANGED <<suspended, clients, req, parserVars>>

\* lines 707-738: one attempt; the success response is sent from inside the
\* try, and what the try throws (the rejected post, or the TypeError of
\* response.data.messages[0]) is kept in lastError
PostMessage ==
  /\ pc = "post"
  /\ \E o \in PostOutcomes :
       /\ calls' = Append(calls, Call("post", "", <<local.attempt>>))
       /\ IF o.kind = "resolves"
            THEN /\ Send(SendResponse(200, TRUE, Str(S_production), Undef, Str(local.message), Undef,
                                      Str(local.formattedPhone), Str(S_MessageId), Undef))
                 /\ UNCHANGED local
            ELSE /\ local' = [local EXCEPT !.lastError = o.apiError,
                                           !.attempt = IF @ < MaxAttempts THEN @ ELSE @ + 1]
                 /\ pc' = IF local.attempt < MaxAttempts THEN "backoff" ELSE "exhausted"
                 /\ UNCHANGED responses
  /\ UNCHANGED <<suspended, clients, req, parserVars>>

\* lines 739-742 and the attempt++ of line 707: the wait before the next attempt
Backoff ==
  /\ pc = "backoff"
  /\ calls' = Append(calls, Call("setTimeout", "", <<BackoffMs(local.attempt)>>))
  /\ local' = [local EXCEPT !.attempt = @ + 1]
  /\ pc' = "post"
  /\ UNCHANGED <<suspended, clients, req, responses, parserVars>>

\* lines 746-763: all attempts failed, and the wa.me link is answered
SendFallback ==
  /\ pc = "exhausted"
  /\ Send(SendResponse(200, FALSE, Str(S_fallbackMode), Str(M_WhatsAppFailed), Str(local.message),
                       Str(WaLink(DigitsOnly(req.phoneNumber.s), local.message)),
                       Str(DigitsOnly(req.phoneNumber.s)), Undef, local.lastError))
  /\ UNCHANGED <<suspended, clients, req, local, calls, parserVars>>

NextSend ==
  \/ ReceiveSend
  \/ ComposeMessage
  \/ PostMessage
  \/ Backoff
  \/ SendFallback

SpecSend == InitSend /\ [][NextSend]_vars

\* ------------------------------------------------------------ concurrent requests

\* the variables of the request that is running, as one record
RequestContext ==
  [rawText |-> rawText, pc |-> pc, jsonStr |-> jsonStr, repaired |-> repaired, parsed |-> parsed,
   result |-> result, outcome |-> outcome, error |-> error, parseCalls |-> parseCalls,
   steps |-> steps, req |-> req, local |-> local, calls |-> calls, responses |-> responses]

\* a request of analyzeBusinessAudio that has been received and not yet handled
WaitingRequest(body) ==
  [rawText |-> <<>>, pc |-> "audio", jsonStr |-> <<>>, repaired |-> <<>>, parsed |-> Undef,
   result |-> NoAnalysis, outcome |-> "running", error |-> "", parseCalls |-> 0,
   steps |-> <<>>, req |-> body, local |-> AudioLocals, calls |-> <<>>, responses |-> <<>>]

\* the request c runs on
Resume(c) ==
  /\ rawText' = c.rawText
  /\ pc' = c.pc
  /\ jsonStr' = c.jsonStr
  /\ repaired' = c.repaired
  /\ parsed' = c.parsed
  /\ result' = c.result
  /\ outcome' = c.outcome
  /\ error' = c.error
  /\ parseCalls' = c.parseCalls
  /\ steps' = c.steps
  /\ req' = c.req
  /\ local' = c.local
  /\ calls' = c.calls
  /\ responses' = c.responses

\* lines 6-8 and 69: the module is loaded with both handles null, and two
\* requests are waiting
InitConcurrent ==
  /\ rawText = <<>>
  /\ pc = "load"
  /\ parsed = Undef
  /\ Fresh
  /\ clients = [speechClient |-> FALSE, generativeAI |-> FALSE]
  /\ req \in [hasFile : BOOLEAN]
  /\ local = AudioLocals
  /\ calls = <<>>
  /\ responses = <<>>
  /\ suspended \in {<<WaitingRequest(body)>> : body \in [hasFile : BOOLEAN]}

\* lines 11-66 and 69: initializeGoogleAI, run once when the module is loaded:
\* without GOOGLE_PROJECT_ID both handles stay null; a constructor that throws
\* leaves its handle null
InitializeGoogleAI ==
  /\ pc = "load"
  /\ \E env \in [projectId : BOOLEAN, speechThrows : BOOLEAN, vertexThrows : BOOLEAN] :
       clients' = IF ~env.projectId THEN clients
                  ELSE [speechClient |-> ~env.speechThrows, generativeAI |-> ~env.vertexThrows]
  /\ pc' = "audio"
  /\ UNCHANGED <<suspended, req, local, calls, responses, parserVars>>

\* the upstream answers tried with two requests
FewAnswers ==
  /\ rawText \in {<<>>, Text_FullAnalysis, Span_TrailingComma}
  /\ local.transcript \in {<<>>, T_Pots}
  /\ local.lastError \in {Undef, Str(M_BadEncoding)}

\* one step of the request that is running
ServeRequest == NextAudio /\ FewAnswers'

\* the event loop goes on with a waiting request that has not been answered;
\* the one that ran waits with its variables as they are
Switch ==
  /\ pc # "load"
  /\ \E i \in 1..Len(suspended) :
       /\ suspended[i].pc # "responded"
       /\ Resume(suspended[i])
       /\ suspended' = [suspended EXCEPT ![i] = RequestContext]
  /\ UNCHANGED clients

NextConcurrent ==
  \/ InitializeGoogleAI
  \/ ServeRequest
  \/ Switch

SpecConcurrent == InitConcurrent /\ [][NextConcurrent]_vars

\* ------------------------------------------------------------ generateWhatsAppMessage

M_MissingTranscript == <<"M", "i", "s", "s", "i", "n", "g", " ", "t", "r", "a", "n", "s", "c", "r", "i", "p", "t">>

M_TranscriptRequired == <<"B", "u", "s", "i", "n", "e", "s", "s", " ", "t", "r", "a", "n", "s", "c", "r", "i", "p", "t", " ", "i", "s", " ", "r", "e", "q", "u", "i", "r", "e", "d", " ", "t", "o", " ", "g", "e", "n", "e", "r", "a", "t", "e", " ", "W", "h", "a", "t", "s", "A", "p", "p", " ", "m", "e", "s", "s", "a", "g", "e">>

M_GenerationUnavailable == <<"A", "I", " ", "g", "e", "n", "e", "r", "a", "t", "i", "o", "n", " ", "u", "n", "a", "v", "a", "i", "l", "a", "b", "l", "e", " ", "-", " ", "u", "s", "i", "n", "g", " ", "t", "e", "m", "p", "l", "a", "t", "e">>

M_GenerationFailed == <<"A", "I", " ", "g", "e", "n", "e", "r", "a", "t", "i", "o", "n", " ", "f", "a", "i", "l", "e", "d", " ", "-", " ", "u", "s", "i", "n", "g", " ", "e", "n", "h", "a", "n", "c", "e", "d", " ", "t", "e", "m", "p", "l", "a", "t", "e">>

S_craftBusinessLower == <<"c", "r", "a", "f", "t", " ", "b", "u", "s", "i", "n", "e", "s", "s">>

S_handmadeProducts == <<"h", "a", "n", "d", "m", "a", "d", "e", " ", "p", "r", "o", "d", "u", "c", "t", "s">>

S_ClayPots == <<"C", "l", "a", "y", " ", "p", "o", "t", "s">>

\* line 493: the template message sent without a model; a character outside
\* ASCII is written U+ and its code point
fallbackMessage == <<"U+1F44B", " ", "H", "e", "l", "l", "o", "!", " ", "T", "h", "a", "n", "k", " ", "y", "o", "u", " ", "f", "o", "r", " ", "y", "o", "u", "r", " ", "i", "n", "t", "e", "r", "e", "s", "t", " ", "i", "n", " ", "o", "u", "r", " ", "h", "a", "n", "d", "m", "a", "d", "e", " ", "c", "r", "a", "f", "t", "s", ".", "\n", "\n", "U+1F3A8", " ", "W", "e", " ", "c", "r", "e", "a", "t", "e", " ", "b", "e", "a", "u", "t", "i", "f", "u", "l", ",", " ", "a", "u", "t", "h", "e", "n", "t", "i", "c", " ", "p", "r", "o", "d", "u", "c", "t", "s", " ", "w", "i", "t", "h", " ", "t", "r", "a", "d", "i", "t", "i", "o", "n", "a", "l", " ", "t", "e", "c", "h", "n", "i", "q", "u", "e", "s", ".", "\n", "\n", "U+2728", " ", "K", "e", "y", " ", "f", "e", "a", "t", "u", "r", "e", "s", ":", "\n", "U+2022", " ", "H", "a", "n", "d", "m", "a", "d", "e", " ", "w", "i", "t", "h", " ", "c", "a", "r", "e", "\n", "U+2022", " ", "T", "r", "a", "d", "i", "t", "i", "o", "n", "a", "l", " ", "c", "r", "a", "f", "t", "s", "m", "a", "n", "s", "h", "i", "p", "\n", "U+2022", " ", "C", "u", "s", "t", "o", "m", " ", "o", "r", "d", "e", "r", "s", " ", "a", "v", "a", "i", "l", "a", "b", "l", "e", "\n", "U+2022", " ", "F", "a", "s", "t", " ", "d", "e", "l", "i", "v", "e", "r", "y", "\n", "\n", "U+1F4DE", " ", "R", "e", "p", "l", "y", " ", "t", "o", " ", "t", "h", "i", "s", " ", "m", "e", "s", "s", "a", "g", "e", " ", "t", "o", " ", "p", "l", "a", "c", "e", " ", "y", "o", "u", "r", " ", "o", "r", "d", "e", "r", " ", "o", "r", " ", "a", "s", "k", " ", "q", "u", "e", "s", "t", "i", "o", "n", "s", "!", "\n", "\n", "U+1F64F", " ", "T", "h", "a", "n", "k", " ", "y", "o", "u", " ", "f", "o", "r", " ", "s", "u", "p", "p", "o", "r", "t", "i", "n", "g", " ", "l", "o", "c", "a", "l", " ", "a", "r", "t", "i", "s", "a", "n", "s", "!">>

\* lines 564-576: the three fixed parts of the template message sent when the
\* call of the model failed
ContextualGreeting == <<"U+1F44B", " ", "H", "e", "l", "l", "o", " ", "t", "h", "e", "r", "e", "!", "\n", "\n", "T", "h", "a", "n", "k", " ", "y", "o", "u", " ", "f", "o", "r", " ", "y", "o", "u", "r", " ", "i", "n", "t", "e", "r", "e", "s", "t", " ", "i", "n", " ", "o", "u", "r", " ">>

ContextualSpecialty == <<"!", " ", "W", "e", " ", "s", "p", "e", "c", "i", "a", "l", "i", "z", "e", " ", "i", "n", " ">>

ContextualClosing == <<" ", "m", "a", "d", "e", " ", "w", "i", "t", "h", " ", "t", "r", "a", "d", "i", "t", "i", "o", "n", "a", "l", " ", "t", "e", "c", "h", "n", "i", "q", "u", "e", "s", " ", "a", "n", "d", " ", "a", "t", "t", "e", "n", "t", "i", "o", "n", " ", "t", "o", " ", "d", "e", "t", "a", "i", "l", ".", "\n", "\n", "U+2728", " ", "W", "h", "a", "t", " ", "m", "a", "k", "e", "s", " ", "u", "s", " ", "s", "p", "e", "c", "i", "a", "l", ":", "\n", "U+2022", " ", "A", "u", "t", "h", "e", "n", "t", "i", "c", " ", "h", "a", "n", "d", "m", "a", "d", "e", " ", "q", "u", "a", "l", "i", "t", "y", "\n", "U+2022", " ", "T", "r", "a", "d", "i", "t", "i", "o", "n", "a", "l", " ", "c", "r", "a", "f", "t", "s", "m", "a", "n", "s", "h", "i", "p", "\n", "U+2022", " ", "C", "u", "s", "t", "o", "m", " ", "o", "r", "d", "e", "r", "s", " ", "w", "e", "l", "c", "o", "m", "e", "\n", "U+2022", " ", "F", "a", "s", "t", " ", "a", "n", "d", " ", "r", "e", "l", "i", "a", "b", "l", "e", " ", "s", "e", "r", "v", "i", "c", "e", "\n", "\n", "U+1F4DE", " ", "P", "l", "e", "a", "s", "e", " ", "r", "e", "p", "l", "y", " ", "t", "o", " ", "t", "h", "i", "s", " ", "m", "e", "s", "s", "a", "g", "e", " ", "w", "i", "t", "h", " ", "y", "o", "u", "r", " ", "r", "e", "q", "u", "i", "r", "e", "m", "e", "n", "t", "s", ",", " ", "a", "n", "d", " ", "w", "e", "'", "l", "l", " ", "g", "e", "t", " ", "b", "a", "c", "k", " ", "t", "o", " ", "y", "o", "u", " ", "w", "i", "t", "h", " ", "d", "e", "t", "a", "i", "l", "s", " ", "a", "n", "d", " ", "p", "r", "i", "c", "i", "n", "g", "!", "\n", "\n", "U+1F64F", " ", "T", "h", "a", "n", "k", " ", "y", "o", "u", " ", "f", "o", "r", " ", "s", "u", "p", "p", "o", "r", "t", "i", "n", "g", " ", "l", "o", "c", "a", "l", " ", "a", "r", "t", "i", "s", "a", "n", "s", "!">>

\* lines 563-576: contextualFallback for the business type and focus of the
\* request (the bodies tried carry strings or nothing)
contextualFallback(body) ==
  ContextualGreeting \o OrElse(body.businessType, Str(S_craftBusinessLower)).s
    \o ContextualSpecialty \o OrElse(body.detectedFocus, Str(S_handmadeProducts)).s
    \o ContextualClosing

\* the request bodies tried: transcript absent, null, empty, a text, or a
\* number (which has no substring)
MessageBodies ==
  [businessType : {Undef, Str(S_PotteryUpper)},
   detectedFocus : {Undef, Str(S_ClayPots)},
   transcript : {Undef, Null, Str(<<>>), Str(T_Pots), Str(T_Hello), Num(7)}]

\* the body of a response of generateWhatsAppMessage; generatedAt, the reading
\* of the clock, is left out
MessageResponse(status, success, partial, message, detail, businessType) ==
  [status |-> status, success |-> success, partial |-> partial, error |-> message,
   message |-> detail, businessType |-> businessType]

MessageLocals == [prompt |-> <<>>]

InitMessage ==
  /\ rawText = <<>>
  /\ pc = "message"
  /\ parsed = Undef
  /\ Fresh
  /\ clients \in [generativeAI : BOOLEAN]
  /\ req \in MessageBodies
  /\ local = MessageLocals
  /\ calls = <<>>
  /\ responses = <<>>
  /\ suspended = <<>>

\* lines 488-513: without a model the template message is answered at once;
\* with one, the request without a transcript is refused
ReceiveMessage ==
  /\ pc = "message"
  /\ IF ~clients.generativeAI
       THEN Send(MessageResponse(200, TRUE, TRUE, Str(M_GenerationUnavailable),
                                 Str(fallbackMessage), Undef))
     ELSE IF ~Truthy(req.transcript)
       THEN Send(MessageResponse(400, FALSE, FALSE, Str(M_MissingTranscript),
                                 Str(M_TranscriptRequired), Undef))
     ELSE /\ pc' = "prompt"
          /\ UNCHANGED responses
  /\ UNCHANGED <<suspended, clients, req, local, calls, parserVars>>

\* lines 516-530: the prompt holds the first 500 characters of the transcript;
\* it is built outside the try block, so the TypeError of a transcript without
\* substring rejects the handler's promise and no response is sent
BuildPrompt ==
  /\ pc = "prompt"
  /\ IF req.transcript.t # "str"
       THEN /\ pc' = "unhandled"
            /\ UNCHANGED local
       ELSE /\ local' = [local EXCEPT !.prompt = Slice(req.transcript.s, 1, Min(500, Len(req.transcript.s)))]
            /\ pc' = "generateMessage"
  /\ UNCHANGED <<suspended, clients, req, calls, responses, parserVars>>

\* lines 532-587: the call of the model; its trimmed text is the message, and
\* a rejected call or an answer without text is answered with the template
\* for the business
GenerateMessage ==
  /\ pc = "generateMessage"
  /\ \E o \in MessageOutcomes :
       /\ calls' = Append(calls, Call("generateContent", "", local.prompt))
       /\ IF o.kind = "text" /\ o.text # <<>>
            THEN Send(MessageResponse(200, TRUE, FALSE, Undef, Str(Trim(o.text)),
                                      OrElse(req.businessType, Str(S_CraftBusiness))))
            ELSE Send(MessageResponse(200, TRUE, TRUE, Str(M_GenerationFailed),
                                      Str(contextualFallback(req)),
                                      OrElse(req.businessType, Str(S_CraftBusiness))))
  /\ UNCHANGED <<suspended, clients, req, local, parserVars>>

NextMessage ==
  \/ ReceiveMessage
  \/ BuildPrompt
  \/ GenerateMessage

SpecMessage == InitMessage /\ [][NextMessage]_vars

\* ------------------------------------------------------------ properties

\* the indices of the character c in text
IndicesOf(text, c) == {i \in 1..Len(text) : text[i] = c}

\* text has no '{', or no '}', or its first '{' is not before its last '}'
NoBraceCondition(text) ==
  \/ IndicesOf(text, "{") = {}
  \/ IndicesOf(text, "}") = {}
  \/ ~(Least(IndicesOf(text, "{")) < Greatest(IndicesOf(text, "}")))

\* r has every field of an analysis: string business type and focus, a
\* non-empty problem list, allowed solution ids with a reason and a number
\* as confidence
IsAnalysisResult(r) ==
  /\ r.businessType.t = "str"
  /\ r.detectedFocus.t = "str"
  /\ r.topProblems.t = "arr"
  /\ Len(r.topProblems.kids) > 0
  /\ \A which \in {"primary", "secondary"} :
       /\ r.recommendedSolutions[which].id.t = "str"
       /\ r.recommendedSolutions[which].id.s \in {S_website, S_whatsapp, S_instagram}
       /\ r.recommendedSolutions[which].reason.t # "undef"
  /\ r.confidence.t = "num"

AllTransforms == <<"quoteKeys", "singleQuotes", "trailingCommas", "balanceBraces">>

\* C1 as stated: for every raw text, parseAIResponse returns an analysis and
\* never throws.
C1_NeverThrows ==
  pc = "done" => outcome = "returned" /\ IsAnalysisResult(result)

\* C1 as amended: parseAIResponse is never left without a next step; it returns an
\* analysis for every text that holds an object candidate, whatever the parse
\* and the repair make of it, and it throws only for the empty text and for a
\* text without an object candidate, without returning anything.
C1_ReturnsOrExplicitError ==
  /\ pc # "done" =>
       /\ outcome = "running"
       /\ pc \in {"start", "extract", "parse", "quoteKeys", "singleQuotes", "trailingCommas",
                  "balanceBraces", "reparse"}
  /\ pc = "done" =>
       \/ /\ outcome = "returned"
          /\ IsAnalysisResult(result)
          /\ error = ""
       \/ /\ outcome = "thrown"
          /\ result = NoAnalysis
          /\ Len(rawText) = 0 \/ NoBraceCondition(StripCodeBlock(rawText))

\* a truncated response whose braces the repair balances is answered with the
\* analysis parsed from it
C1_Witness ==
  /\ pc = "done"
  /\ rawText = Text_Truncated
  /\ outcome = "returned"
  /\ steps = AllTransforms
  /\ result.fallback = Undef
  /\ outcome = "returned"
  /\ steps # <<>>
  /\ result.recommendedSolutions.primary.id = Str(S_instagram)

\* every element of the array x is a non-empty string
AllNonEmptyStrings(x) == \A i \in 1..Len(x.kids) : x.kids[i].v.t = "str" /\ Len(x.kids[i].v.s) > 0

\* C2: for every parsed payload, validateAndRepairAnalysis returns a schema-valid
\* record: non-empty string businessType and detectedFocus, a non-empty
\* topProblems of non-empty strings, solution ids from the allow-list with
\* string reasons, and a numeric confidence in [0,100].
C2_SchemaValid ==
  pc = "done" =>
    /\ result.businessType.t = "str" /\ Len(result.businessType.s) > 0
    /\ result.detectedFocus.t = "str" /\ Len(result.detectedFocus.s) > 0
    /\ result.topProblems.t = "arr"
    /\ Len(result.topProblems.kids) > 0
    /\ AllNonEmptyStrings(result.topProblems)
    /\ \A which \in {"primary", "secondary"} :
         /\ result.recommendedSolutions[which].id.t = "str"
         /\ result.recommendedSolutions[which].id.s \in {S_website, S_whatsapp, S_instagram}
         /\ result.recommendedSolutions[which].reason.t = "str"
    /\ result.confidence.t = "num"
    /\ result.confidence.m >= 0
    /\ NumLeq(result.confidence, 100)

\* s is a non-empty run of decimal digits
IsDigitString(s) == Len(s) > 0 /\ \A i \in 1..Len(s) : s[i] \in Digits

\* C3: a numeric confidence above 100 normalizes to 100, one below 0 to 0, a
\* numeric string to the integer it denotes clamped into [0,100]; a number out
\* of range is never replaced by the default.
C3_ConfidenceClamped ==
  pc = "done" =>
    LET c == Get(parsed, K_confidence) IN
    /\ c.t = "num" /\ ~NumLeq(c, 100) => result.confidence = Num(100)
    /\ c.t = "num" /\ c.m < 0 => result.confidence = Num(0)
    /\ c.t = "str" /\ IsDigitString(c.s) =>
         result.confidence = Num(Min(100, RadixValue(c.s, 1, Len(c.s) + 1, 10, 0)))

S_Pottery == <<"P", "o", "t", "t", "e", "r", "y">>

\* C4: the fenced {businessType: 'Pottery', confidence: 120} between two lines of
\* prose yields businessType "Pottery", confidence 100, every other field at
\* its default and no fallback mark.
C4_EndToEnd ==
  pc = "done" /\ rawText = Text_EndToEnd =>
    /\ outcome = "returned"
    /\ result.businessType = Str(S_Pottery)
    /\ result.confidence = Num(100)
    /\ result.detectedFocus = Str(S_HandmadeProducts)
    /\ result.topProblems = Arr(<<Str(S_UnableToDetermine)>>)
    /\ result.recommendedSolutions =
         [primary |-> [id |-> Str(S_website), reason |-> Str(S_BasicOnlinePresence)],
          secondary |-> [id |-> Str(S_whatsapp), reason |-> Str(S_DirectCommunication)]]
    /\ ~Truthy(result.fallback)

\* the id the normalizer is to return for the id given
ExpectedId(given, default) ==
  IF given.t = "str" /\ given.s \in {S_website, S_whatsapp, S_instagram} THEN given ELSE Str(default)

GivenId(data, which) == Get(Get(Get(data, K_recommendedSolutions), which), K_id)

\* C5: a recommended-solution id that is absent or outside {website, whatsapp,
\* instagram} becomes the default id (website for primary, whatsapp for
\* secondary); an id of the allow-list is kept.
C5_SolutionIdEnforced ==
  pc = "done" =>
    /\ result.recommendedSolutions.primary.id = ExpectedId(GivenId(parsed, K_primary), S_website)
    /\ result.recommendedSolutions.secondary.id = ExpectedId(GivenId(parsed, K_secondary), S_whatsapp)

\* "tiktok" as primary id is replaced while "instagram" as secondary id is kept
C5_Witness ==
  /\ pc = "done"
  /\ GivenId(parsed, K_primary) = Str(S_tiktok)
  /\ result.recommendedSolutions.primary.id = Str(S_website)
  /\ GivenId(parsed, K_secondary) = Str(S_instagram)
  /\ result.recommendedSolutions.secondary.id = Str(S_instagram)

\* C6: parseAIResponse fails in extraction exactly when the text left by the
\* code-block step has no '{', no '}', or its first '{' not before its last
\* '}'; it then throws the no-JSON error (the empty-input error for the empty
\* text), has parsed nothing and returns no object.
C6_NoJsonExactly ==
  pc \notin {"start", "extract"} =>
    /\ outcome = "thrown" <=> NoBraceCondition(StripCodeBlock(rawText))
    /\ outcome = "thrown" =>
         /\ parseCalls = 0
         /\ parsed = Undef
         /\ result = NoAnalysis
         /\ error = IF Len(rawText) = 0 THEN "Invalid AI response - empty or non-string"
                    ELSE "No valid JSON object found in AI response"

\* a text whose only '}' comes before its only '{' is refused
C6_Witness ==
  /\ pc = "done"
  /\ outcome = "thrown"
  /\ error = "No valid JSON object found in AI response"
  /\ IndicesOf(rawText, "{") # {}
  /\ IndicesOf(rawText, "}") # {}

\* the first index where a code fence opens that a later fence closes, 0 when none
FenceStart(s) ==
  LET opens == {i \in 1..Len(s) : /\ MatchesAt(s, Fence, i)
                                  /\ \E q \in (i + 3)..Len(s) : MatchesAt(s, Fence, q)}
  IN IF opens = {} THEN 0 ELSE Least(opens)

\* the text between the first code fence and the fence that closes it, the
\* whole text when there is no such pair
FencedRegion(s) ==
  IF FenceStart(s) = 0 THEN s
  ELSE Slice(s, FenceStart(s) + 3,
             Least({q \in (FenceStart(s) + 3)..Len(s) : MatchesAt(s, Fence, q)}) - 1)

\* the characters from the first '{' to the last '}' of text, nothing when the
\* text lacks either brace
FirstToLastBrace(text) ==
  IF IndicesOf(text, "{") = {} \/ IndicesOf(text, "}") = {} THEN <<>>
  ELSE SubSeq(text, Least(IndicesOf(text, "{")), Greatest(IndicesOf(text, "}")))

Span_A1 == <<"{", "\"", "a", "\"", ":", "1", "}">>

\* C7: when extraction succeeds the candidate span runs from the first '{' to
\* the last '}' of the first code block when the text has one and of the raw
\* text otherwise; the fenced {"a":1} yields {"a":1}.
C7_SpanFirstToLastBrace ==
  pc \notin {"start", "extract"} /\ outcome # "thrown" =>
    /\ jsonStr = FirstToLastBrace(FencedRegion(rawText))
    /\ rawText = Text_FencedObject => jsonStr = Span_A1

\* braces before and after the code block are left out of the span
C7_Witness ==
  /\ pc = "parse"
  /\ rawText = Text_BracesOutsideFence
  /\ jsonStr = <<"{", "\"", "c", "o", "n", "f", "i", "d", "e", "n", "c", "e", "\"", ":", "\"", "8", "7", "\"", "}">>

\* C8: the span is parsed as it is first and a successful parse ends the call
\* with no transform applied; after a failed parse the transforms run in the
\* order key quoting, single quotes, trailing commas, brace balancing, then one
\* more parse: never more than two parses.
C8_OneShotOrdered ==
  /\ parseCalls <= 2
  /\ \E n \in 0..4 : steps = SubSeq(AllTransforms, 1, n)
  /\ pc \in {"quoteKeys", "singleQuotes", "trailingCommas", "balanceBraces", "reparse"} =>
       parseCalls = 1 /\ ~JSONParse(jsonStr).ok
  /\ steps # <<>> => ~JSONParse(jsonStr).ok
  /\ pc = "done" /\ outcome = "returned" =>
       IF JSONParse(jsonStr).ok
         THEN steps = <<>> /\ parseCalls = 1 /\ repaired = <<>>
         ELSE /\ steps = AllTransforms
              /\ parseCalls = 2
              /\ repaired = BalanceBraces(RemoveTrailingCommas(SingleToDouble(QuoteKeys(jsonStr))))

\* a span that the direct parse refuses and the second parse accepts
C8_Witness ==
  /\ pc = "done"
  /\ steps = AllTransforms
  /\ parseCalls = 2
  /\ JSONParse(repaired).ok
  /\ result.fallback = Undef

\* how many backslashes stand right before index k of s
BackslashesBefore(s, k) == (k - 1) - Greatest({j \in 0..(k - 1) : At(s, j) # "\\"})

\* index i of s lies inside a string literal: an odd number of quotes that no
\* backslash escapes come before it
InsideString(s, i) ==
  Cardinality({k \in 1..(i - 1) : s[k] = "\"" /\ BackslashesBefore(s, k) % 2 = 0}) % 2 = 1

\* the commas of s outside string literals that only whitespace separates from a closing bracket
TrailingCommas(s) ==
  {i \in 1..Len(s) : /\ s[i] = ","
                     /\ ~InsideString(s, i)
                     /\ At(s, RunEnd(s, i + 1, JsonWs)) \in {"}", "]"}}

\* s without the characters at the indices in D
Without(s, D) ==
  LET kept == (1..Len(s)) \ D
      nth(k) == CHOOSE i \in kept : Cardinality({j \in kept : j <= i}) = k
  IN [k \in 1..Cardinality(kept) |-> s[nth(k)]]

\* s is valid JSON but for its trailing commas
OnlyTrailingCommasWrong(s) ==
  TrailingCommas(s) # {} /\ JSONParse(Without(s, TrailingCommas(s))).ok

\* C9: for every span that is valid JSON but for commas right before a closing
\* '}' or ']', the direct parse fails and the repair succeeds with the payload of
\* the span without those commas.
C9_TrailingCommasRepaired ==
  pc = "done" /\ outcome = "returned" /\ OnlyTrailingCommasWrong(jsonStr) =>
    /\ steps = AllTransforms
    /\ JSONParse(repaired).ok
    /\ parsed = JSONParse(Without(jsonStr, TrailingCommas(jsonStr))).v
    /\ result = validateAndRepairAnalysis(JSONParse(Without(jsonStr, TrailingCommas(jsonStr))).v)

\* how many closing braces s lacks to be valid JSON, 0 when no number of them makes it valid
UnclosedBraces(s) ==
  LET ns == {n \in 1..CountChar(s, "{") : JSONParse(s \o RepeatBrace(n)).ok} IN
  IF ns = {} THEN 0 ELSE Least(ns)

\* C10: when the repaired text has more '{' than '}', as many '}' as are missing
\* are appended and none otherwise, so that a span that is valid JSON but for
\* unclosed trailing object braces parses after repair to the object meant.
C10_UnclosedBracesRepaired ==
  /\ pc = "done" /\ steps = AllTransforms =>
       LET text == RemoveTrailingCommas(SingleToDouble(QuoteKeys(jsonStr)))
           missing == CountChar(text, "{") - CountChar(text, "}")
       IN /\ Len(repaired) = Len(text) + (IF missing > 0 THEN missing ELSE 0)
          /\ SubSeq(repaired, 1, Len(text)) = text
          /\ \A i \in (Len(text) + 1)..Len(repaired) : repaired[i] = "}"
  /\ pc = "done" /\ outcome = "returned" /\ UnclosedBraces(jsonStr) > 0 =>
       /\ JSONParse(repaired).ok
       /\ parsed = JSONParse(jsonStr \o RepeatBrace(UnclosedBraces(jsonStr))).v
       /\ result = validateAndRepairAnalysis(parsed)

\* the indices where a bare key of s starts: a run of word characters outside
\* every string literal that only whitespace separates from a ':'
BareKeyStarts(s) ==
  {a \in 1..Len(s) : /\ s[a] \in WordChars
                     /\ At(s, a - 1) \notin WordChars
                     /\ ~InsideString(s, a)
                     /\ At(s, RunEnd(s, RunEnd(s, a, WordChars), RegexSpace)) = ":"}

\* s from index from on with every bare key wrapped in double quotes and
\* nothing else touched
RECURSIVE QuoteBareKeysFrom(_, _)
QuoteBareKeysFrom(s, from) ==
  LET starts == {a \in BareKeyStarts(s) : a >= from} IN
  IF starts = {} THEN Slice(s, from, Len(s))
  ELSE LET a == Least(starts)
           b == RunEnd(s, a, WordChars)
       IN Slice(s, from, a - 1) \o <<"\"">> \o Slice(s, a, b - 1) \o <<"\"">>
            \o QuoteBareKeysFrom(s, b)

\* C11: the key-quoting step wraps the bare keys of the span in double quotes
\* and leaves everything else, quoted keys and the contents of string values
\* included, as it was.
C11_OnlyBareKeysQuoted ==
  pc = "singleQuotes" => repaired = QuoteBareKeysFrom(jsonStr, 1)

\* x satisfies the business-analysis schema: two non-empty strings, a non-empty
\* list of non-empty strings, two solutions with an id of the allow-list and a
\* string reason, a confidence between 0 and 100
SatisfiesSchema(x) ==
  /\ IsNonEmptyString(Get(x, K_businessType))
  /\ IsNonEmptyString(Get(x, K_detectedFocus))
  /\ Get(x, K_topProblems).t = "arr"
  /\ Len(Get(x, K_topProblems).kids) > 0
  /\ \A i \in 1..Len(Get(x, K_topProblems).kids) : IsNonEmptyString(Get(x, K_topProblems).kids[i].v)
  /\ \A which \in {K_primary, K_secondary} :
       /\ Get(Get(Get(x, K_recommendedSolutions), which), K_id).t = "str"
       /\ Get(Get(Get(x, K_recommendedSolutions), which), K_id).s \in {S_website, S_whatsapp, S_instagram}
       /\ Get(Get(Get(x, K_recommendedSolutions), which), K_reason).t = "str"
  /\ Get(x, K_confidence).t = "num"
  /\ NumGeq(Get(x, K_confidence), 0)
  /\ NumLeq(Get(x, K_confidence), 100)

\* the field values of the object x, laid out as an analysis record
FieldsOf(x) ==
  [businessType |-> Get(x, K_businessType),
   detectedFocus |-> Get(x, K_detectedFocus),
   topProblems |-> Get(x, K_topProblems),
   recommendedSolutions |->
     [primary |-> [id |-> Get(Get(Get(x, K_recommendedSolutions), K_primary), K_id),
                   reason |-> Get(Get(Get(x, K_recommendedSolutions), K_primary), K_reason)],
      secondary |-> [id |-> Get(Get(Get(x, K_recommendedSolutions), K_secondary), K_id),
                     reason |-> Get(Get(Get(x, K_recommendedSolutions), K_secondary), K_reason)]],
   confidence |-> Get(x, K_confidence),
   fallback |-> Undef]

NonEmptyReasons(x) ==
  \A which \in {K_primary, K_secondary} :
    Len(Get(Get(Get(x, K_recommendedSolutions), which), K_reason).s) > 0

\* the analysis record r as the object JSON.parse would give for it
AsPayload(r) ==
  Payload(r.businessType, r.detectedFocus, r.topProblems,
          Obj(Member(K_primary, Obj(Member(K_id, r.recommendedSolutions.primary.id)
                                      \o Member(K_reason, r.recommendedSolutions.primary.reason)))
                \o Member(K_secondary, Obj(Member(K_id, r.recommendedSolutions.secondary.id)
                                             \o Member(K_reason, r.recommendedSolutions.secondary.reason)))),
          r.confidence)

CallsOf(op) == SelectSeq(calls, LAMBDA c : c.op = op)

\* a is a record of createFallbackAnalysis: marked as a fallback and equal to
\* what the generator returns for the reason it carries
IsFallbackRecord(a) ==
  /\ a.fallback = Bool(TRUE)
  /\ a.topProblems.t = "arr"
  /\ Len(a.topProblems.kids) > 0
  /\ a.topProblems.kids[1].v.t = "str"
  /\ a = createFallbackAnalysis(a.topProblems.kids[1].v.s)

\* the analysis of a transcript has met an error: the model is not there, its
\* call failed or gave no text, the text holds no JSON object, or the repaired
\* text does not parse either
AnalysisError ==
  /\ local.transcript # <<>>
  /\ \/ pc = "responded" /\ rawText = <<>>
     \/ pc \in {"done", "responded"} /\ outcome = "thrown"
     \/ pc \in {"done", "responded"} /\ outcome = "returned"
          /\ ~JSONParse(jsonStr).ok /\ ~JSONParse(repaired).ok

\* C14: in analyzeBusinessAudio an error of the analysis (model unavailable or
\* failing, no JSON found, parse failing after repair) ends the request: the
\* answer carries a record of createFallbackAnalysis, validateAndRepairAnalysis
\* has run on nothing, the model was called once at most and parseAIResponse
\* has stopped.
C14_ErrorsEndInFallback ==
  AnalysisError =>
    /\ CallsOf("validateAndRepairAnalysis") = <<>>
    /\ parsed = Undef
    /\ Len(CallsOf("generateContent")) <= 1
    /\ pc = "done" => responses = <<>>
    /\ pc = "responded" =>
         /\ Len(responses) = 1
         /\ responses[1].status = 200
         /\ IsFallbackRecord(responses[1].analysis)
         /\ Len(CallsOf("createFallbackAnalysis")) = 1

\* a text whose repair does not parse was answered with the 'JSON parsing
\* failed' fallback
C14_Witness ==
  /\ pc = "responded"
  /\ outcome = "returned"
  /\ steps = AllTransforms
  /\ ~JSONParse(repaired).ok
  /\ responses[1].analysis = createFallbackAnalysis(S_JSONParsingFailed)

EncodingsTried ==
  [i \in 1..Len(CallsOf("recognize")) |-> CallsOf("recognize")[i].encoding]

\* transcribeAudio has returned a transcription
Transcribed == local.encoding # ""

\* C18: transcribeAudio tries WEBM_OPUS, MP3, WAV, OGG_OPUS in this order, one
\* at a time and each once at most; the first encoding whose transcription is
\* longer than 10 characters ends the loop, an encoding that fails or gives a
\* shorter text is followed by the next, and when all four have failed the
\* outcome is a failure.
C18_EncodingsInOrder ==
  /\ EncodingsTried = SubSeq(<<"WEBM_OPUS", "MP3", "WAV", "OGG_OPUS">>, 1, Len(EncodingsTried))
  /\ Len(EncodingsTried) <= 4
  /\ pc = "recognize" => ~Transcribed /\ local.attempt = Len(EncodingsTried) + 1
  /\ Transcribed =>
       /\ Len(local.transcript) > 10
       /\ EncodingsTried # <<>>
       /\ local.encoding = EncodingsTried[Len(EncodingsTried)]
       /\ pc # "recognize"
  /\ pc = "responded" /\ clients.speechClient /\ req.hasFile /\ ~Transcribed =>
       /\ Len(EncodingsTried) = 4
       /\ ~responses[1].success
       /\ SubSeq(responses[1].error.s, 1, Len(M_AllFormatsFailed)) = M_AllFormatsFailed
       /\ responses[1].transcript = Undef

\* the third encoding was the first to give a long enough text, and the fourth
\* was never tried
C18_Witness ==
  /\ pc = "responded"
  /\ EncodingsTried = <<"WEBM_OPUS", "MP3", "WAV">>
  /\ local.encoding = "WAV"
  /\ local.transcript = T_Hello \o <<" ">> \o T_World
  /\ local.lastError = Str(M_DeadlineExceeded)

\* C19: every request of analyzeBusinessAudio that carries an audio file is
\* answered with status 200 and a valid analysis, whatever fails upstream: the
\* speech client missing, every encoding failing, the model missing or failing.
C19_Always200 ==
  pc = "responded" /\ req.hasFile =>
    /\ Len(responses) = 1
    /\ responses[1].status = 200
    /\ IsAnalysisResult(responses[1].analysis)

\* the record a fallback generator's run ended in: the data or the fallback of
\* what enhanceImageWithGemini returned
EnhancementRecord(r) == IF r.success THEN r.data ELSE r.fallback

\* C13: every run of a fallback generator (createFallbackAnalysis,
\* generateFallbackQuotation, createFallbackEnhancement) is supplied a reason,
\* and the record answered is marked fallback = true and holds that reason
\* verbatim in its designated field: the first element of topProblems of an
\* analysis (which is the generator's function of the reason), the notes of a
\* quotation, a member of an enhancement.
C13_FallbackCarriesReason ==
  pc = "responded" =>
    \A i \in 1..Len(calls) :
      /\ calls[i].op = "createFallbackAnalysis" =>
           responses[1].analysis = createFallbackAnalysis(calls[i].reason)
      /\ calls[i].op = "generateFallbackQuotation" /\ responses[1].status = 200 =>
           /\ responses[1].quotation.fallback = Bool(TRUE)
           /\ calls[i].reason # <<>>
           /\ responses[1].quotation.notes = Str(calls[i].reason)
      /\ calls[i].op = "createFallbackEnhancement" =>
           /\ Get(EnhancementRecord(responses[1]), K_fallback) = Bool(TRUE)
           /\ calls[i].reason # <<>>
           /\ \E k \in 1..Len(EnhancementRecord(responses[1]).kids) :
                EnhancementRecord(responses[1]).kids[k].v = Str(calls[i].reason)

\* the normalizers of the use cases
Normalizers == {"validateAndRepairAnalysis", "validateQuotation", "validateEnhancement"}

\* the object a JSON.parse of the run that has answered made, Undef when none did
ParsedObject ==
  IF "quotation" \in DOMAIN local /\ JSONParse(local.jsonStr).ok THEN JSONParse(local.jsonStr).v
  ELSE IF "enhancement" \in DOMAIN local /\ JSONParse(local.jsonStr).ok THEN JSONParse(local.jsonStr).v
  ELSE parsed

\* C16: in each of the three use cases the object a successful parse made
\* goes through the use case's normalizer before the answer: a normalizer has
\* run, and the raw parsed object is not what the caller gets.
C16_ParsedIsNormalized ==
  pc = "responded" /\ ParsedObject # Undef =>
    /\ \E i \in 1..Len(calls) : calls[i].op \in Normalizers
    /\ "transcript" \in DOMAIN local => responses[1].analysis = validateAndRepairAnalysis(parsed)
    /\ "quotation" \in DOMAIN local => responses[1].quotation = validateQuotation(ParsedObject)
    /\ "enhancement" \in DOMAIN local => responses[1].data # ParsedObject

\* the positions where a generative model is called
GenerativeCallSites == {"generate", "pricing", "generateEnhancement"}

\* C17: one run of analyzeTranscriptWithVertexAI, generateQuotation or
\* enhanceImageWithGemini calls the generative model once at most, and once
\* the call is made no step (a failed call, a text without a JSON object, a
\* failed parse or repair) leads back to it.
C17_AtMostOneGenerativeCall ==
  /\ Len(CallsOf("generateContent")) <= 1
  /\ CallsOf("generateContent") # <<>> => pc \notin GenerativeCallSites

\* a quotation run whose model answered with a text that does not parse has
\* answered from the template after one call of the model
C17_Witness ==
  /\ pc = "responded"
  /\ "quotation" \in DOMAIN local
  /\ local.jsonStr # <<>>
  /\ ~JSONParse(local.jsonStr).ok
  /\ Len(CallsOf("generateContent")) = 1
  /\ Len(CallsOf("generateFallbackQuotation")) = 1
  /\ responses[1].status = 200

\* the posts and the waits of a request, in order
SendSteps == SelectSeq(calls, LAMBDA c : c.op \in {"post", "setTimeout"})

\* three attempts with the waits of one second and of two seconds between them
FullSchedule ==
  <<Call("post", "", <<1>>), Call("setTimeout", "", <<1000>>),
    Call("post", "", <<2>>), Call("setTimeout", "", <<2000>>),
    Call("post", "", <<3>>)>>

\* C20: with the WhatsApp configuration sendWhatsAppMessage posts three times
\* at most, waits 1000 ms after the first failed attempt and 2000 ms after the
\* second (and not after the third), answers with the production response
\* right after the attempt that succeeded, and answers with the fallback
\* response (status 200, success false, mode 'fallback', a wa.me link) only
\* after three failed attempts.
C20_ThreeAttemptsThenFallback ==
  /\ Len(CallsOf("post")) <= 3
  /\ Len(SendSteps) <= Len(FullSchedule)
  /\ SendSteps = SubSeq(FullSchedule, 1, Len(SendSteps))
  /\ pc \in {"backoff", "exhausted"} => local.lastError # Null
  /\ pc = "responded" /\ responses[1].mode = Str(S_production) =>
       /\ responses[1].status = 200
       /\ responses[1].success
       /\ calls[Len(calls)].op = "post"
       /\ local.attempt = Len(CallsOf("post"))
  /\ pc = "responded" /\ responses[1].mode = Str(S_fallbackMode) =>
       /\ responses[1].status = 200
       /\ ~responses[1].success
       /\ SendSteps = FullSchedule
       /\ responses[1].waLink.t = "str"
       /\ SubSeq(responses[1].waLink.s, 1, Len(S_WaMe)) = S_WaMe
       /\ responses[1].waLink = Str(WaLink(DigitsOnly(req.phoneNumber.s), local.message))
  /\ Len(responses) <= 1

\* three attempts failed and the fallback response was sent
C20_Witness ==
  /\ pc = "responded"
  /\ responses[1].mode = Str(S_fallbackMode)
  /\ Len(CallsOf("post")) = 3
  /\ Len(CallsOf("setTimeout")) = 2
  /\ local.lastError = Str(M_Timeout)

\* the requests in the system: the one that runs and the ones that wait
AllRequests == {RequestContext} \cup {suspended[i] : i \in 1..Len(suspended)}

\* what a request was given: its body, the answers of its own upstream calls
\* and the work they led to
OwnInputs(c) == <<c.req, c.rawText, c.local, c.calls>>

\* two answered requests with the same inputs got the same answer
SameInputsSameAnswer ==
  \A a, b \in AllRequests :
    a.pc = "responded" /\ b.pc = "responded" /\ OwnInputs(a) = OwnInputs(b) =>
      a.responses = b.responses

\* a step writes the client handles only while the module is loaded, and a
\* waiting request is never changed: it is only resumed, as it was, while the
\* request that ran takes its place, as it is
StepKeepsOthers ==
  /\ clients' # clients => pc = "load"
  /\ suspended' # suspended =>
       \E i \in 1..Len(suspended) :
         /\ suspended' = [suspended EXCEPT ![i] = RequestContext]
         /\ RequestContext' = suspended[i]

\* C21: with two requests of analyzeBusinessAudio interleaved in any way, the
\* module-level client handles are written by initializeGoogleAI alone (at
\* module load), no step of one request changes anything the other holds, and
\* requests with the same input and the same upstream answers get the same
\* answer.
C21_RequestsIsolated == []SameInputsSameAnswer /\ [][StepKeepsOthers]_vars

\* one request has been answered while the other, which made an upstream
\* call before, still waits for its next step
C21_Witness ==
  /\ pc = "responded"
  /\ responses[1].success
  /\ Len(suspended) = 1
  /\ suspended[1].pc = "generate"
  /\ suspended[1].calls # <<>>

\* x is a number of the domain lo..hi
InDomain(x, lo, hi) == x.t = "num" /\ ~NumLess(x, Num(lo)) /\ ~NumLess(Num(hi), x)

\* the bulk discounts of the quotation handed to validateQuotation
GivenDiscounts(quotation) ==
  [quantity5 |-> Get(Get(quotation, K_bulkDiscounts), K_quantity5),
   quantity10 |-> Get(Get(quotation, K_bulkDiscounts), K_quantity10),
   quantity25 |-> Get(Get(quotation, K_bulkDiscounts), K_quantity25)]

\* C22: validateQuotation keeps verbatim every numeric field that is present
\* and inside its domain: a base price of 50..50000, a confidence of 50..100
\* and each bulk discount of 0..50, the boundary 0 included.
C22_KeepsValidValues ==
  pc = "responded" /\ "quotation" \in DOMAIN local /\ responses[1].status = 200 =>
    /\ InDomain(Get(local.quotation, K_basePrice), PriceMin, PriceMax) =>
         responses[1].quotation.basePrice = Get(local.quotation, K_basePrice)
    /\ InDomain(Get(local.quotation, K_confidence), 50, 100) =>
         responses[1].quotation.confidence = Get(local.quotation, K_confidence)
    /\ \A k \in {"quantity5", "quantity10", "quantity25"} :
         InDomain(GivenDiscounts(local.quotation)[k], 0, 50) =>
           responses[1].quotation.bulkDiscounts[k] = GivenDiscounts(local.quotation)[k]

\* the boundary of lo..hi nearest to the number x
NearestBoundary(x, lo, hi) == IF NumLess(x, Num(lo)) THEN Num(lo) ELSE IF NumLess(Num(hi), x) THEN Num(hi) ELSE x

\* x is a number outside lo..hi
OutOfDomain(x, lo, hi) == x.t = "num" /\ ~InDomain(x, lo, hi)

\* C23: validateQuotation clamps every present numeric value outside its
\* domain to the nearest boundary of the domain, never to the default: the
\* base price into 50..50000, the confidence into 50..100, each bulk discount
\* into 0..50.
C23_ClampsToBoundary ==
  pc = "responded" /\ "quotation" \in DOMAIN local /\ responses[1].status = 200 =>
    /\ OutOfDomain(Get(local.quotation, K_basePrice), PriceMin, PriceMax) =>
         responses[1].quotation.basePrice = NearestBoundary(Get(local.quotation, K_basePrice), PriceMin, PriceMax)
    /\ OutOfDomain(Get(local.quotation, K_confidence), 50, 100) =>
         responses[1].quotation.confidence = NearestBoundary(Get(local.quotation, K_confidence), 50, 100)
    /\ \A k \in {"quantity5", "quantity10", "quantity25"} :
         OutOfDomain(GivenDiscounts(local.quotation)[k], 0, 50) =>
           responses[1].quotation.bulkDiscounts[k] = NearestBoundary(GivenDiscounts(local.quotation)[k], 0, 50)

\* C24: the record validateQuotation returns has priceRange.min below
\* priceRange.max, whatever quotation it is given.
C24_MinBelowMax ==
  pc = "responded" /\ "quotation" \in DOMAIN local /\ responses[1].status = 200 =>
    NumLess(responses[1].quotation.priceRange.min, responses[1].quotation.priceRange.max)

\* C25: the quotation generateQuotation answers with has its base price and
\* both ends of its price range inside the advertised 50..50000 rupees.
C25_PricesAdvertised ==
  pc = "responded" /\ "quotation" \in DOMAIN local /\ responses[1].status = 200 =>
    /\ InDomain(responses[1].quotation.basePrice, PriceMin, PriceMax)
    /\ InDomain(responses[1].quotation.priceRange.min, PriceMin, PriceMax)
    /\ InDomain(responses[1].quotation.priceRange.max, PriceMin, PriceMax)

\* the positions of analyzeBusinessAudio before the analysis of the transcript
BeforeAnalysis == {"audio", "transcribe", "recognize"}

\* C26: analyzeBusinessAudio sends one response per request and no more; the
\* analysis of the transcript (analyzeTranscriptWithVertexAI, the call of the
\* model in it) starts only when an encoding gave a transcription; and the
\* response of every branch (no file 400, transcription failed 200, analysis
\* failed 200 partial, success 200, unexpected error 500) carries an analysis
\* that is the normalized parsed output or a record of createFallbackAnalysis.
C26_OneResponseWithAnalysis ==
  /\ Len(responses) = (IF pc = "responded" THEN 1 ELSE 0)
  /\ pc \notin BeforeAnalysis \cup {"responded"} => Transcribed
  /\ CallsOf("generateContent") # <<>> => Transcribed /\ Len(local.transcript) > MinTranscriptLength
  /\ pc = "responded" =>
       /\ responses[1].status \in {200, 400, 500}
       /\ responses[1].status = 400 <=> ~req.hasFile
       /\ responses[1].status = 500 <=> req.hasFile /\ ~clients.speechClient
       /\ IF parsed # Undef
            THEN /\ responses[1].analysis = validateAndRepairAnalysis(parsed)
                 /\ responses[1].status = 200 /\ responses[1].success /\ ~responses[1].partial
            ELSE IsFallbackRecord(responses[1].analysis)
       /\ ~Transcribed => ~responses[1].success /\ responses[1].transcript = Undef

\* the second encoding gave the transcription and the model's answer was
\* parsed, normalized and sent
C26_Witness ==
  /\ pc = "responded"
  /\ Len(CallsOf("recognize")) = 2
  /\ Len(CallsOf("generateContent")) = 1
  /\ parsed # Undef
  /\ responses[1].status = 200
  /\ responses[1].analysis = validateAndRepairAnalysis(parsed)
  /\ ~IsFallbackRecord(responses[1].analysis)

\* the WhatsApp API has accepted a post of this request: the post resolved, and
\* the last thing the loop caught is the TypeError of reading the accepted
\* answer's body (only a resolved post leads to it)
AcceptedPost == "lastError" \in DOMAIN local /\ local.lastError = Str(M_ReadingZero)

\* C27: within one request of sendWhatsAppMessage, once a post to the WhatsApp
\* API has resolved, no step posts again.
C27_NoSendAfterAccepted == [][AcceptedPost => Len(CallsOf("post"))' = Len(CallsOf("post"))]_vars

\* the quotation answered was made by generateFallbackQuotation
FromTemplate == CallsOf("generateFallbackQuotation") # <<>>

\* C28: in every successful response of generateQuotation generatedBy is
\* 'template' exactly when the template made the quotation and 'vertex-ai'
\* exactly when it was made from the parsed output of the model.
C28_GeneratedByMatches ==
  pc = "responded" /\ "quotation" \in DOMAIN local /\ responses[1].status = 200 =>
    /\ responses[1].generatedBy = Str(S_template) <=> FromTemplate
    /\ responses[1].generatedBy = Str(S_vertexAI) <=> ~FromTemplate

\* C29: the fallback flag of a returned quotation is true exactly when
\* generateFallbackQuotation made the quotation; no output of the model sets it.
C29_FlagTellsProvenance ==
  pc = "responded" /\ "quotation" \in DOMAIN local /\ responses[1].status = 200 =>
    /\ responses[1].quotation.fallback = Bool(TRUE) <=> FromTemplate
    /\ ~FromTemplate => responses[1].quotation.fallback = Bool(FALSE)

\* C30: generateWhatsAppMessage of the AI controller answers every request
\* without a transcript with status 400, success false and the error 'Missing
\* transcript', whether the generative model is initialized or not.
C30_MissingTranscriptRefused ==
  pc = "responded" /\ "prompt" \in DOMAIN local /\ ~Truthy(req.transcript) =>
    /\ Len(responses) = 1
    /\ responses[1].status = 400
    /\ ~responses[1].success
    /\ responses[1].error = Str(M_MissingTranscript)

====
